---- MODULE Spec2Model ----
(***************************************************************************)
(* DSRT vector library: Vector2 / Vector3 / Vector4 and MathUtils          *)
(* (src/src/core).                                                         *)
(*                                                                         *)
(* The three classes are near-duplicates of one another; a vector is kept  *)
(* as one record whose `type` field is its dimension (2, 3 or 4) and a     *)
(* method that has the same body in the three classes is one operator      *)
(* working on the fields the class has.                                    *)
(*                                                                         *)
(* Numbers are integers: an operation is taken only on inputs for which    *)
(* every float it computes is an integer and the vectors it leaves have a  *)
(* Manhattan length of at most MaxNorm, so that the integer result is the  *)
(* float result.  JavaScript's `undefined` (a field the object does not    *)
(* have, an argument left out) is the reserved value `undefined`.          *)
(*                                                                         *)
(* The method definitions that follow each class's #markDirty in the       *)
(* source files are read as members of that class, and `_vector`, which    *)
(* Vector3.projectOnPlane and Vector3.reflect name, as one module-level    *)
(* Vector3 that lives as long as the module.                               *)
(*                                                                         *)
(* Spec is the caller of the vector classes, SpecObserver the caller that  *)
(* reassigns the observer of a vector between its calls, SpecMath the      *)
(* caller of the pure functions of MathUtils and SpecRandom the caller of  *)
(* seededRandom.  SpecAxisAngle is the caller of Vector4's rotation-matrix *)
(* setter, SpecFrame the caller that passes a second vector to the methods *)
(* that take one, SpecReentrant the caller whose observer mutates the      *)
(* vector it observes.  A number of MathUtils beyond 31 bits is kept as a  *)
(* pair of halves, a quotient as a fraction.                               *)
(***************************************************************************)
EXTENDS Integers, Sequences, FiniteSets, TLC

\* ------------------------------------------------------------------ bounds
\* Largest Manhattan length (|x| + |y| + |z| + |w|) of a stored vector.
MaxNorm == 2
\* Largest offset used with fromArray / toArray.
MaxOffset == 1

\* ------------------------------------------------------------------ values
\* JavaScript `undefined`, outside the numeric range of the model.
undefined == -1000
\* The number NaN (0 * Infinity, 0 / 0), outside the numeric range too.
NaN == -2000
\* Math.PI, which is no integer: a value of its own.
PI == -3000

Val == (0 - MaxNorm)..MaxNorm

FieldNames == <<"x", "y", "z", "w">>
AllFields == {"x", "y", "z", "w"}

\* The component fields an instance of dimension t has.
Fields(t) == {FieldNames[i] : i \in 1..t}

\* The objects of a session: the caller's vectors a and b, the vector a
\* clone() call returns (c), and the module-level scratch vector.
VecIds == {"a", "b", "c", "_vector"}

\* Values of the onChange slot: null, or one of two callbacks (spies that
\* record their invocation and do nothing else).
Callbacks == {"spyA", "spyB"}
Slots == {"null"} \cup Callbacks

\* A third callback, which mutates the vector it observes: while it has calls
\* left to make it makes one, v.setX(left), from inside its invocation.
Reentrant == "nudge"

\* The most calls the re-entrant callback is given to make.
MaxNested == 2

\* A slot of the heap that holds no object.
NoVector ==
  [type |-> 0, c |-> [f \in AllFields |-> undefined], isDirty |-> FALSE,
   onChange |-> "null"]

\* A default parameter value applies when the argument is undefined.
Default(arg, dflt) == IF arg = undefined THEN dflt ELSE arg

\* constructor(x = 0, y = 0[, z = 0][, w = 1]) of the class of dimension t.
NewVector(t, x, y, z, w) ==
  [type |-> t,
   c |-> [f \in AllFields |->
            IF f \notin Fields(t) THEN undefined
            ELSE CASE f = "x" -> Default(x, 0)
                   [] f = "y" -> Default(y, 0)
                   [] f = "z" -> Default(z, 0)
                   [] f = "w" -> Default(w, 1)],
   isDirty |-> FALSE,
   onChange |-> "null"]

VARIABLES
  vec,    \* the heap: VecIds -> vector record
  arr,    \* the array a toArray call returned, until the caller drops it
  pc,     \* the caller: "idle", or "returned" (holding the result of a call)
  last,   \* the call that just returned: what it was and what it did
  left,   \* the mutating calls the re-entrant callback has yet to make
  seed,   \* MathUtils._seed, the state of seededRandom
  drawn,  \* the caller's record of seededRandom: its last reseed, the draws since
  assigned \* the caller's record of the values it assigned to a.onChange

vars == <<vec, arr, pc, last, left, seed, drawn, assigned>>

\* ------------------------------------------------------------ call context
\* A method runs on a context: the heap, the observer invocations made so
\* far in this call, and the value the method returns.
\* `ret` is what the call evaluates to: the id of a vector, "undefined", or
\* the kind of a plain value ("number", "boolean", "array", "iterator"), whose
\* number is `val`.  `err` is the exception the call raised, if any.  `ok`
\* is FALSE once a float was computed that is no integer.  `seen` holds, for
\* each observer invocation, the components (x, y, z, w) and the flag the
\* observer found in the vector it was handed; `left` is the state of the re-entrant callback.
Ctx(h) ==
  [h |-> h, notes |-> <<>>, seen |-> <<>>, ret |-> "undefined", val |-> 0,
   err |-> "none", ok |-> TRUE, left |-> 0]

\* Mutant: the hook invokes whatever the slot holds, null included.
markDirty_noTypeCheck(c, r) ==
  [c EXCEPT !.h[r].isDirty = TRUE,
            !.notes = Append(@, [fn |-> c.h[r].onChange, arg |-> r]),
            !.ret = "undefined"]

\* Mutant: the hook flips the flag instead of setting it.
markDirty_flipsFlag(c, r) ==
  [c EXCEPT !.h[r].isDirty = ~@,
            !.notes = IF c.h[r].onChange \in Callbacks
                        THEN Append(@, [fn |-> c.h[r].onChange, arg |-> r])
                        ELSE @,
            !.ret = "undefined"]

\* Mutant: the hook notifies but forgets the flag.
markDirty_noFlag(c, r) ==
  [c EXCEPT !.notes = IF c.h[r].onChange \in Callbacks
                        THEN Append(@, [fn |-> c.h[r].onChange, arg |-> r])
                        ELSE @,
            !.ret = "undefined"]

\* Mutant: a hook that keeps out re-entrant notifications, by notifying only
\* when it is the one that raises the flag.
markDirty_guarded(c, r) ==
  IF c.h[r].isDirty THEN [c EXCEPT !.ret = "undefined"]
  ELSE [c EXCEPT !.h[r].isDirty = TRUE,
                 !.notes = Append(@, [fn |-> c.h[r].onChange, arg |-> r]),
                 !.seen = Append(@, <<c.h[r].c["x"], c.h[r].c["y"], c.h[r].c["z"],
                                      c.h[r].c["w"], TRUE>>),
                 !.ret = "undefined"]

\* #markDirty(): set the flag, then call onChange(this) if it is a function.
\* The method has no return statement: a caller that returns its value
\* returns undefined.
\* On its invocation a callback reads the vector.  A spy then returns.  The
\* re-entrant callback, while it has calls left, calls setX on the vector
\* it was handed: setX assigns x and runs the hook again, inside the
\* invocation that is still running.
RECURSIVE markDirty(_, _)
markDirty(c, r) ==
  LET dirty == [c EXCEPT !.h[r].isDirty = TRUE, !.ret = "undefined"]
      Invoked(d, v) ==
        [d EXCEPT !.notes = Append(@, [fn |-> d.h[v].onChange, arg |-> v]),
                  !.seen = Append(@, <<d.h[v].c["x"], d.h[v].c["y"], d.h[v].c["z"],
                                       d.h[v].c["w"], d.h[v].isDirty>>)]
  IN  IF dirty.h[r].onChange \in Callbacks THEN Invoked(dirty, r)
      ELSE IF dirty.h[r].onChange = Reentrant
        THEN IF dirty.left > 0
               THEN [markDirty([Invoked(dirty, r) EXCEPT !.left = @ - 1,
                                                        !.h[r].c["x"] = dirty.left], r)
                       EXCEPT !.ret = "undefined"]
               ELSE Invoked(dirty, r)
      ELSE dirty

\* `return this;`
Return(c, r) == [c EXCEPT !.ret = r]

\* this.f = g[f] for every field f in the domain of g.
Assign(c, r, g) ==
  [c EXCEPT !.h[r].c = [f \in AllFields |-> IF f \in DOMAIN g THEN g[f] ELSE @[f]]]

\* The fields of the receiver's class, and a component of a vector.
FieldsOf(c, r) == Fields(c.h[r].type)
Get(c, v, f) == c.h[v].c[f]

\* `return <number>;`
ReturnVal(c, n) == [c EXCEPT !.ret = "number", !.val = n]
\* `return <boolean>;`
ReturnBool(c, b) == [c EXCEPT !.ret = "boolean", !.val = IF b THEN 1 ELSE 0]

\* Records that the floats computed so far are integers only if `cond`.
Exact(c, cond) == [c EXCEPT !.ok = @ /\ cond]

\* -------------------------------------------------------------- arithmetic
Abs(n) == IF n < 0 THEN 0 - n ELSE n
Max2(m, n) == IF m >= n THEN m ELSE n
Min2(m, n) == IF m <= n THEN m ELSE n
Sign(n) == IF n > 0 THEN 1 ELSE IF n < 0 THEN 0 - 1 ELSE 0

\* n / d where the quotient is an integer (0 stands in where it is not, and
\* the caller records the inexactness with Exact).
Divides(d, n) == d # 0 /\ Abs(n) % Abs(d) = 0
Quot(n, d) ==
  IF ~Divides(d, n) THEN 0
  ELSE IF (n < 0) = (d < 0) THEN Abs(n) \div Abs(d) ELSE 0 - (Abs(n) \div Abs(d))

\* Math.sqrt on perfect squares.
IsSquare(n) == n >= 0 /\ \E k \in 0..n : k * k = n
Sqrt(n) == IF IsSquare(n) THEN CHOOSE k \in 0..n : k * k = n ELSE 0

\* A scalar handed from one method to another may be a reciprocal: it is
\* kept as the fraction num/den.
Rat(n) == [num |-> n, den |-> 1]
Recip(n) == [num |-> 1, den |-> n]

\* MathUtils.clamp(v, min, max)
MathUtils_clamp(v, min, max) == Max2(min, Min2(max, v))

\* ------------------------------------------------- MathUtils: seededRandom
\* A number beyond 31 bits is kept as <<hi, lo>>, standing for
\* hi * 65536 + lo with lo in 0..65535; a 32-bit word has hi in 0..65535.
Half == 65536
Big(n) == <<n \div Half, n % Half>>
AddBig(v, w) == <<v[1] + w[1] + ((v[2] + w[2]) \div Half), (v[2] + w[2]) % Half>>

\* let _seed = 1234567, and the step 0x6D2B79F5 = 27947 * 65536 + 31221
InitialSeed == Big(1234567)
SeedStep == <<27947, 31221>>

\* The arithmetic of seededRandom on t = _seed (after the step):
\*   t = Math.imul(t ^ t >>> 15, t | 1);
\*   t ^= t + Math.imul(t ^ t >>> 7, t | 61);
\*   return ((t ^ t >>> 14) >>> 0) / 4294967296
\* The value returned is kept as its numerator over 2^32.
Mulberry(t0) ==
  LET \* ToInt32 / ToUint32: the number modulo 2^32.
      Word(v) == <<v[1] % Half, v[2]>>
      RECURSIVE BitXor(_, _, _)
      BitXor(a, b, bits) ==
        IF bits = 0 THEN 0
        ELSE ((a + b) % 2) + 2 * BitXor(a \div 2, b \div 2, bits - 1)
      RECURSIVE BitOr(_, _, _)
      BitOr(a, b, bits) ==
        IF bits = 0 THEN 0
        ELSE (IF a % 2 = 1 \/ b % 2 = 1 THEN 1 ELSE 0)
               + 2 * BitOr(a \div 2, b \div 2, bits - 1)
      RECURSIVE Pow2(_)
      Pow2(k) == IF k = 0 THEN 1 ELSE 2 * Pow2(k - 1)
      \* v ^ w, v | n (n below 65536) and v >>> k (k below 16) on words
      Xor(v, w) == <<BitXor(v[1], w[1], 16), BitXor(v[2], w[2], 16)>>
      OrLow(v, n) == <<v[1], BitOr(v[2], n, 16)>>
      Ushr(v, k) ==
        <<v[1] \div Pow2(k), (v[2] \div Pow2(k)) + (v[1] % Pow2(k)) * Pow2(16 - k)>>
      \* Math.imul(v, w): the low 32 bits of the product, built from
      \* products that stay below 2^31
      Low(a, b) == a * (b % 256) + ((a * (b \div 256)) % 256) * 256
      MulLow(a, b) == Low(a, b) % Half
      MulCarry(a, b) == ((a * (b \div 256)) \div 256 + (Low(a, b) \div Half)) % Half
      Imul(v, w) ==
        <<(MulCarry(v[2], w[2]) + MulLow(v[1], w[2]) + MulLow(v[2], w[1])) % Half,
          MulLow(v[2], w[2])>>
      t1 == Imul(Xor(Word(t0), Ushr(Word(t0), 15)), OrLow(Word(t0), 1))
      t2 == Xor(t1, Word(AddBig(t1, Imul(Xor(t1, Ushr(t1, 7)), OrLow(t1, 61)))))
  IN  Xor(t2, Ushr(t2, 14))

\* Mutant: the argument is ignored, the stored seed is never replaced.
seededRandom_neverReseeds(stored, s) ==
  LET t == AddBig(stored, SeedStep)
  IN  [seed |-> t, ret |-> Mulberry(t)]

\* seededRandom(s): if (s !== undefined) _seed = s; let t = _seed += 0x6D2B79F5; ...
\* Gives the new _seed and the value returned.
seededRandom(stored, s) ==
  LET t == AddBig(IF s # undefined THEN Big(s) ELSE stored, SeedStep)
  IN  [seed |-> t, ret |-> Mulberry(t)]

\* ------------------------------------------------------ component accessors
\* Vector2.set(x, y)
Vector2_set(c, r, x, y) ==
  Return(markDirty(Assign(c, r, [f \in {"x", "y"} |-> IF f = "x" THEN x ELSE y]), r), r)

\* Mutant: an omitted z defaults to 0 instead of the current z.
Vector3_set_zeroDefault(c, r, x, y, z) ==
  Return(markDirty(Assign(c, r,
    [f \in {"x", "y", "z"} |->
       CASE f = "x" -> x [] f = "y" -> y [] f = "z" -> Default(z, 0)]), r), r)

\* Vector3.set(x, y, z = this.z)
Vector3_set(c, r, x, y, z) ==
  Return(markDirty(Assign(c, r,
    [f \in {"x", "y", "z"} |->
       CASE f = "x" -> x [] f = "y" -> y [] f = "z" -> Default(z, Get(c, r, "z"))]), r), r)

\* Vector4.set(x, y, z, w)
Vector4_set(c, r, x, y, z, w) ==
  Return(markDirty(Assign(c, r,
    [f \in AllFields |-> CASE f = "x" -> x [] f = "y" -> y [] f = "z" -> z [] f = "w" -> w]), r), r)

setScalar(c, r, scalar) ==
  Return(markDirty(Assign(c, r, [f \in FieldsOf(c, r) |-> scalar]), r), r)

setX(c, r, x) == Return(markDirty(Assign(c, r, [f \in {"x"} |-> x]), r), r)
setY(c, r, y) == Return(markDirty(Assign(c, r, [f \in {"y"} |-> y]), r), r)
setZ(c, r, z) == Return(markDirty(Assign(c, r, [f \in {"z"} |-> z]), r), r)
setW(c, r, w) == Return(markDirty(Assign(c, r, [f \in {"w"} |-> w]), r), r)

\* `throw new Error(...)`: the call ends there, with nothing returned.
Throw(c, e) == [c EXCEPT !.err = e, !.ret = "undefined"]

\* Mutant: the component is written and the hook run whatever the index.
setComponent_noCheck(c, r, index, value) ==
  Return(markDirty(Assign(c, r, [f \in {"x"} |-> value]), r), r)

\* setComponent(index, value): case 0 .. case dimension-1, default: throw.
setComponent(c, r, index, value) ==
  IF index \in 0..(c.h[r].type - 1)
    THEN Return(markDirty(Assign(c, r, [f \in {FieldNames[index + 1]} |-> value]), r), r)
    ELSE Throw(c, "IndexOutOfRange")

\* getComponent(index)
getComponent(c, r, index) ==
  IF index \in 0..(c.h[r].type - 1)
    THEN ReturnVal(c, Get(c, r, FieldNames[index + 1]))
    ELSE Throw(c, "IndexOutOfRange")

\* Mutant: the clone carries the source's dirty flag and observer with it.
clone_copiesState(c, r) ==
  Return([c EXCEPT !.h["c"] = c.h[r]], "c")

\* clone(): new this.constructor(this.x, this.y[, this.z][, this.w]); the new
\* object is c.
clone(c, r) ==
  Return([c EXCEPT !.h["c"] =
            NewVector(c.h[r].type, Get(c, r, "x"), Get(c, r, "y"),
                      Get(c, r, "z"), Get(c, r, "w"))], "c")

\* Vector2.copy / Vector3.copy: this.f = v.f for the fields of the class.
copy(c, r, v) ==
  Return(markDirty(Assign(c, r, [f \in FieldsOf(c, r) |-> Get(c, v, f)]), r), r)

\* Mutant: w is taken from the source as it is.
Vector4_copy_rawW(c, r, v) ==
  Return(markDirty(Assign(c, r, [f \in AllFields |-> Get(c, v, f)]), r), r)

\* Vector4.copy: w = (v.w !== undefined) ? v.w : 1
Vector4_copy(c, r, v) ==
  Return(markDirty(Assign(c, r,
    [f \in AllFields |->
       IF f = "w" THEN (IF Get(c, v, "w") # undefined THEN Get(c, v, "w") ELSE 1)
       ELSE Get(c, v, f)]), r), r)

\* --------------------------------------------------------------- arithmetic
\* Mutant: the hook runs on the operand.
add_marksOperand(c, r, v) ==
  Return(markDirty(Assign(c, r,
    [f \in FieldsOf(c, r) |-> Get(c, r, f) + Get(c, v, f)]), v), r)

add(c, r, v) ==
  Return(markDirty(Assign(c, r,
    [f \in FieldsOf(c, r) |-> Get(c, r, f) + Get(c, v, f)]), r), r)

addScalar(c, r, s) ==
  Return(markDirty(Assign(c, r, [f \in FieldsOf(c, r) |-> Get(c, r, f) + s]), r), r)

addVectors(c, r, a, b) ==
  Return(markDirty(Assign(c, r,
    [f \in FieldsOf(c, r) |-> Get(c, a, f) + Get(c, b, f)]), r), r)

addScaledVector(c, r, v, s) ==
  Return(markDirty(Assign(c, r,
    [f \in FieldsOf(c, r) |-> Get(c, r, f) + Get(c, v, f) * s]), r), r)

sub(c, r, v) ==
  Return(markDirty(Assign(c, r,
    [f \in FieldsOf(c, r) |-> Get(c, r, f) - Get(c, v, f)]), r), r)

subScalar(c, r, s) ==
  Return(markDirty(Assign(c, r, [f \in FieldsOf(c, r) |-> Get(c, r, f) - s]), r), r)

subVectors(c, r, a, b) ==
  Return(markDirty(Assign(c, r,
    [f \in FieldsOf(c, r) |-> Get(c, a, f) - Get(c, b, f)]), r), r)

multiply(c, r, v) ==
  Return(markDirty(Assign(c, r,
    [f \in FieldsOf(c, r) |-> Get(c, r, f) * Get(c, v, f)]), r), r)

\* multiplyScalar(scalar), the scalar being the fraction q.
\* The reciprocal of 0 is Infinity: 0 * Infinity is NaN, and any other
\* product with it is an infinity, which the model does not hold.
multiplyScalar(c, r, q) ==
  Return(markDirty(
    Exact(Assign(c, r, [f \in FieldsOf(c, r) |->
                          IF q.den = 0 THEN NaN ELSE Quot(Get(c, r, f) * q.num, q.den)]),
          \A f \in FieldsOf(c, r) :
             IF q.den = 0 THEN Get(c, r, f) = 0
             ELSE Divides(q.den, Get(c, r, f) * q.num)), r), r)

\* Vector3.multiplyVectors(a, b)
multiplyVectors(c, r, a, b) ==
  Return(markDirty(Assign(c, r,
    [f \in FieldsOf(c, r) |-> Get(c, a, f) * Get(c, b, f)]), r), r)

divide(c, r, v) ==
  Return(markDirty(
    Exact(Assign(c, r, [f \in FieldsOf(c, r) |-> Quot(Get(c, r, f), Get(c, v, f))]),
          \A f \in FieldsOf(c, r) : Divides(Get(c, v, f), Get(c, r, f))), r), r)

\* divideScalar(scalar): return this.multiplyScalar(1 / scalar)
divideScalar(c, r, scalar) == multiplyScalar(c, r, Recip(scalar))

\* ---------------------------------------------------- length, normalization
lengthSqOf(c, r) ==
  LET sq(f) == Get(c, r, f) * Get(c, r, f)
  IN  sq("x") + sq("y") + (IF "z" \in FieldsOf(c, r) THEN sq("z") ELSE 0)
                        + (IF "w" \in FieldsOf(c, r) THEN sq("w") ELSE 0)

\* Mutant: the query runs the hook.
lengthSq_dirties(c, r) == ReturnVal(markDirty(c, r), lengthSqOf(c, r))

\* lengthSq()
lengthSq(c, r) == ReturnVal(c, lengthSqOf(c, r))

\* length(): Math.sqrt(this.lengthSq())
length(c, r) ==
  LET c1 == lengthSq(c, r)
  IN  ReturnVal(Exact(c1, IsSquare(c1.val)), Sqrt(c1.val))

\* manhattanLength()
manhattanLength(c, r) ==
  ReturnVal(c, Abs(Get(c, r, "x")) + Abs(Get(c, r, "y"))
               + (IF "z" \in FieldsOf(c, r) THEN Abs(Get(c, r, "z")) ELSE 0)
               + (IF "w" \in FieldsOf(c, r) THEN Abs(Get(c, r, "w")) ELSE 0))

\* Mutant: the length is used as it is, 0 included.
OrOne_noFallback(n) == n

\* `n || 1`
OrOne(n) == IF n = 0 THEN 1 ELSE n

\* normalize(): return this.divideScalar(this.length() || 1)
normalize(c, r) ==
  LET c1 == length(c, r)
  IN  divideScalar(c1, r, OrOne(c1.val))

\* setLength(length): return this.normalize().multiplyScalar(length)
setLength(c, r, len) ==
  LET c1 == normalize(c, r)
  IN  multiplyScalar(c1, c1.ret, Rat(len))

\* ------------------------------------------------------------ interpolation
lerp(c, r, v, alpha) ==
  Return(markDirty(Assign(c, r,
    [f \in FieldsOf(c, r) |-> Get(c, r, f) + (Get(c, v, f) - Get(c, r, f)) * alpha]), r), r)

lerpVectors(c, r, v1, v2, alpha) ==
  Return(markDirty(Assign(c, r,
    [f \in FieldsOf(c, r) |-> Get(c, v1, f) + (Get(c, v2, f) - Get(c, v1, f)) * alpha]), r), r)

\* ----------------------------------------------------------------- clamping
clamp(c, r, min, max) ==
  Return(markDirty(Assign(c, r,
    [f \in FieldsOf(c, r) |->
       MathUtils_clamp(Get(c, r, f), Get(c, min, f), Get(c, max, f))]), r), r)

clampScalar(c, r, minVal, maxVal) ==
  Return(markDirty(Assign(c, r,
    [f \in FieldsOf(c, r) |-> MathUtils_clamp(Get(c, r, f), minVal, maxVal)]), r), r)

\* Mutant: the length is put back as it was.
clampLength_noClamp(c, r, min, max) ==
  LET c1 == length(c, r)
      c2 == divideScalar(c1, r, OrOne(c1.val))
  IN  multiplyScalar(c2, c2.ret, Rat(c1.val))

\* clampLength(min, max):
\*   const len = this.length();
\*   return this.divideScalar(len || 1).multiplyScalar(clamp(len, min, max));
clampLength(c, r, min, max) ==
  LET c1 == length(c, r)
      c2 == divideScalar(c1, r, OrOne(c1.val))
  IN  multiplyScalar(c2, c2.ret, Rat(MathUtils_clamp(c1.val, min, max)))

\* ----------------------------------------------------------------- rounding
\* Math.floor, Math.ceil, Math.round and Math.trunc leave an integer as it is.
MathFloor(n) == n
MathCeil(n) == n
MathRound(n) == n
MathTrunc(n) == n

floor(c, r) ==
  Return(markDirty(Assign(c, r, [f \in FieldsOf(c, r) |-> MathFloor(Get(c, r, f))]), r), r)
ceil(c, r) ==
  Return(markDirty(Assign(c, r, [f \in FieldsOf(c, r) |-> MathCeil(Get(c, r, f))]), r), r)
round(c, r) ==
  Return(markDirty(Assign(c, r, [f \in FieldsOf(c, r) |-> MathRound(Get(c, r, f))]), r), r)
roundToZero(c, r) ==
  Return(markDirty(Assign(c, r, [f \in FieldsOf(c, r) |-> MathTrunc(Get(c, r, f))]), r), r)

negate(c, r) ==
  Return(markDirty(Assign(c, r, [f \in FieldsOf(c, r) |-> 0 - Get(c, r, f)]), r), r)

\* ------------------------------------------------------------ dot and cross
dotOf(c, r, v) ==
  LET p(f) == Get(c, r, f) * Get(c, v, f)
  IN  p("x") + p("y") + (IF "z" \in FieldsOf(c, r) THEN p("z") ELSE 0)
                      + (IF "w" \in FieldsOf(c, r) THEN p("w") ELSE 0)

dot(c, r, v) == ReturnVal(c, dotOf(c, r, v))

\* Vector2.cross(v): a number
Vector2_cross(c, r, v) ==
  ReturnVal(c, Get(c, r, "x") * Get(c, v, "y") - Get(c, r, "y") * Get(c, v, "x"))

\* Vector3.crossVectors(a, b)
crossVectors(c, r, a, b) ==
  LET ax == Get(c, a, "x") ay == Get(c, a, "y") az == Get(c, a, "z")
      bx == Get(c, b, "x") by == Get(c, b, "y") bz == Get(c, b, "z")
  IN  Return(markDirty(Assign(c, r,
        [f \in {"x", "y", "z"} |->
           CASE f = "x" -> ay * bz - az * by
             [] f = "y" -> az * bx - ax * bz
             [] f = "z" -> ax * by - ay * bx]), r), r)

\* Vector3.cross(v): return this.crossVectors(this, v)
cross(c, r, v) == crossVectors(c, r, r, v)

\* --------------------------------------------------------- angle, distance
distanceToSquaredOf(c, r, v) ==
  LET d(f) == (Get(c, r, f) - Get(c, v, f)) * (Get(c, r, f) - Get(c, v, f))
  IN  d("x") + d("y") + (IF "z" \in FieldsOf(c, r) THEN d("z") ELSE 0)

\* Vector2 / Vector3 distanceToSquared(v)
distanceToSquared(c, r, v) == ReturnVal(c, distanceToSquaredOf(c, r, v))

\* distanceTo(v): Math.sqrt(this.distanceToSquared(v))
distanceTo(c, r, v) ==
  ReturnVal(Exact(c, IsSquare(distanceToSquaredOf(c, r, v))),
            Sqrt(distanceToSquaredOf(c, r, v)))

manhattanDistanceTo(c, r, v) ==
  ReturnVal(c, Abs(Get(c, r, "x") - Get(c, v, "x")) + Abs(Get(c, r, "y") - Get(c, v, "y"))
               + (IF "z" \in FieldsOf(c, r) THEN Abs(Get(c, r, "z") - Get(c, v, "z")) ELSE 0))

\* Math.acos: acos(1) is 0; no other value of it is an integer.
AcosExact(n, d) == d # 0 /\ n = d
\* angleTo(v): denom = sqrt(lengthSq * v.lengthSq); denom === 0 gives PI / 2;
\* otherwise acos(clamp(dot / denom, -1, 1)).
angleTo(c, r, v) ==
  LET p == lengthSqOf(c, r) * lengthSqOf(c, v)
  IN  ReturnVal(Exact(c, IsSquare(p) /\ AcosExact(dotOf(c, r, v), Sqrt(p))), 0)

\* equals(v): strict equality of the fields of the receiver's class
equals(c, r, v) == ReturnBool(c, \A f \in FieldsOf(c, r) : Get(c, v, f) = Get(c, r, f))

\* [Symbol.iterator](): yields the components in order; the generator reads
\* the fields and writes nothing.
iterator(c, r) == [c EXCEPT !.ret = "iterator"]

\* ------------------------------------------------------------------- arrays
\* A JavaScript array is a sequence; array[i] of a position it does not have
\* (or of a hole) is undefined.
At(array, i) == IF (i + 1) \in DOMAIN array THEN array[i + 1] ELSE undefined

\* array[i] = v: the array grows to hold position i, the new positions in
\* between being holes.
Put(array, i, v) ==
  [k \in 1..Max2(Len(array), i + 1) |->
     IF k = i + 1 THEN v ELSE IF k \in DOMAIN array THEN array[k] ELSE undefined]

\* fromArray(array, offset = 0)
fromArray(c, r, array, offset) ==
  Return(markDirty(Assign(c, r,
    [f \in FieldsOf(c, r) |->
       At(array, offset + (CHOOSE i \in 0..3 : FieldNames[i + 1] = f))]), r), r)

\* Mutant: the components are written from position 0 whatever the offset.
toArrayOf_noOffset(c, r, array, offset) ==
  LET a1 == Put(array, 0, Get(c, r, "x"))
      a2 == Put(a1, 1, Get(c, r, "y"))
      a3 == IF "z" \in FieldsOf(c, r) THEN Put(a2, 2, Get(c, r, "z")) ELSE a2
  IN  IF "w" \in FieldsOf(c, r) THEN Put(a3, 3, Get(c, r, "w")) ELSE a3

\* toArray(array = [], offset = 0): the array it returns
toArrayOf(c, r, array, offset) ==
  LET a1 == Put(array, offset, Get(c, r, "x"))
      a2 == Put(a1, offset + 1, Get(c, r, "y"))
      a3 == IF "z" \in FieldsOf(c, r) THEN Put(a2, offset + 2, Get(c, r, "z")) ELSE a2
  IN  IF "w" \in FieldsOf(c, r) THEN Put(a3, offset + 3, Get(c, r, "w")) ELSE a3

\* fromBufferAttribute(attribute, index): attribute.getX(index) .. getW(index);
\* the attribute is the sequence of its items.
fromBufferAttribute(c, r, attribute, index) ==
  Return(markDirty(Assign(c, r,
    [f \in FieldsOf(c, r) |->
       attribute[index + 1][CHOOSE i \in 1..4 : FieldNames[i] = f]]), r), r)

\* ----------------------------------------------------------------- matrices
\* m.elements[i]
El(m, i) == m[i + 1]

\* Vector2.applyMatrix3(m)
Vector2_applyMatrix3(c, r, m) ==
  LET x == Get(c, r, "x") y == Get(c, r, "y")
  IN  Return(markDirty(Assign(c, r,
        [f \in {"x", "y"} |->
           IF f = "x" THEN El(m, 0) * x + El(m, 3) * y + El(m, 6)
                      ELSE El(m, 1) * x + El(m, 4) * y + El(m, 7)]), r), r)

\* Vector3.applyMatrix3(m)
applyMatrix3(c, r, m) ==
  LET x == Get(c, r, "x") y == Get(c, r, "y") z == Get(c, r, "z")
  IN  Return(markDirty(Assign(c, r,
        [f \in {"x", "y", "z"} |->
           CASE f = "x" -> El(m, 0) * x + El(m, 3) * y + El(m, 6) * z
             [] f = "y" -> El(m, 1) * x + El(m, 4) * y + El(m, 7) * z
             [] f = "z" -> El(m, 2) * x + El(m, 5) * y + El(m, 8) * z]), r), r)

\* Vector3.applyNormalMatrix(m): return this.applyMatrix3(m).normalize()
applyNormalMatrix(c, r, m) ==
  LET c1 == applyMatrix3(c, r, m)
  IN  normalize(c1, c1.ret)

\* Vector3.applyMatrix4(m): with the perspective divide
\*   w = 1 / (e[3] x + e[7] y + e[11] z + e[15])
applyMatrix4(c, r, m) ==
  LET x == Get(c, r, "x") y == Get(c, r, "y") z == Get(c, r, "z")
      d == El(m, 3) * x + El(m, 7) * y + El(m, 11) * z + El(m, 15)
      nx == El(m, 0) * x + El(m, 4) * y + El(m, 8) * z + El(m, 12)
      ny == El(m, 1) * x + El(m, 5) * y + El(m, 9) * z + El(m, 13)
      nz == El(m, 2) * x + El(m, 6) * y + El(m, 10) * z + El(m, 14)
  IN  Return(markDirty(
        Exact(Assign(c, r,
                [f \in {"x", "y", "z"} |->
                   CASE f = "x" -> Quot(nx, d) [] f = "y" -> Quot(ny, d)
                     [] f = "z" -> Quot(nz, d)]),
              Divides(d, nx) /\ Divides(d, ny) /\ Divides(d, nz)), r), r)

\* Vector4.applyMatrix4(m): the full product, no divide
Vector4_applyMatrix4(c, r, m) ==
  LET x == Get(c, r, "x") y == Get(c, r, "y") z == Get(c, r, "z") w == Get(c, r, "w")
  IN  Return(markDirty(Assign(c, r,
        [f \in AllFields |->
           CASE f = "x" -> El(m, 0) * x + El(m, 4) * y + El(m, 8) * z + El(m, 12) * w
             [] f = "y" -> El(m, 1) * x + El(m, 5) * y + El(m, 9) * z + El(m, 13) * w
             [] f = "z" -> El(m, 2) * x + El(m, 6) * y + El(m, 10) * z + El(m, 14) * w
             [] f = "w" -> El(m, 3) * x + El(m, 7) * y + El(m, 11) * z + El(m, 15) * w]),
        r), r)

\* Vector3.transformDirection(m): the upper-left 3x3, then this.normalize()
transformDirection(c, r, m) ==
  LET x == Get(c, r, "x") y == Get(c, r, "y") z == Get(c, r, "z")
  IN  normalize(Assign(c, r,
        [f \in {"x", "y", "z"} |->
           CASE f = "x" -> El(m, 0) * x + El(m, 4) * y + El(m, 8) * z
             [] f = "y" -> El(m, 1) * x + El(m, 5) * y + El(m, 9) * z
             [] f = "z" -> El(m, 2) * x + El(m, 6) * y + El(m, 10) * z]), r)

\* Vector3.project(camera)
project(c, r, camera) ==
  LET c1 == applyMatrix4(c, r, camera.matrixWorldInverse)
  IN  applyMatrix4(c1, c1.ret, camera.projectionMatrix)

\* Vector3.unproject(camera)
unproject(c, r, camera) ==
  LET c1 == applyMatrix4(c, r, camera.projectionMatrixInverse)
  IN  applyMatrix4(c1, c1.ret, camera.matrixWorld)

\* Vector3.applyQuaternion(q)
applyQuaternion(c, r, q) ==
  LET vx == Get(c, r, "x") vy == Get(c, r, "y") vz == Get(c, r, "z")
      tx == 2 * (q.y * vz - q.z * vy)
      ty == 2 * (q.z * vx - q.x * vz)
      tz == 2 * (q.x * vy - q.y * vx)
  IN  Return(markDirty(Assign(c, r,
        [f \in {"x", "y", "z"} |->
           CASE f = "x" -> vx + q.w * tx + q.y * tz - q.z * ty
             [] f = "y" -> vy + q.w * ty + q.z * tx - q.x * tz
             [] f = "z" -> vz + q.w * tz + q.x * ty - q.y * tx]), r), r)

\* Vector3.applyEuler(euler) and applyAxisAngle(axis, angle): applyQuaternion
\* with the quaternion the Quaternion collaborator builds, here q.
applyEuler(c, r, q) == applyQuaternion(c, r, q)
applyAxisAngle(c, r, q) == applyQuaternion(c, r, q)

\* Vector3.setFromMatrixPosition(m)
setFromMatrixPosition(c, r, m) ==
  Return(markDirty(Assign(c, r,
    [f \in {"x", "y", "z"} |->
       CASE f = "x" -> El(m, 12) [] f = "y" -> El(m, 13) [] f = "z" -> El(m, 14)]), r), r)

\* Vector3.setFromMatrixColumn(m, index): return this.fromArray(m.elements, index * 4)
setFromMatrixColumn(c, r, m, index) == fromArray(c, r, m, index * 4)

\* Vector3.setFromMatrix3Column(m, index): return this.fromArray(m.elements, index * 3)
setFromMatrix3Column(c, r, m, index) == fromArray(c, r, m, index * 3)

\* Vector3.setFromMatrixScale(m):
\*   this.x = this.setFromMatrixColumn(m, 0).length();
\*   this.y = this.setFromMatrixColumn(m, 1).length();
\*   this.z = this.setFromMatrixColumn(m, 2).length();
setFromMatrixScale(c, r, m) ==
  LET c1 == setFromMatrixColumn(c, r, m, 0)
      l1 == length(c1, c1.ret)
      c2 == Assign(l1, r, [f \in {"x"} |-> l1.val])
      c3 == setFromMatrixColumn(c2, r, m, 1)
      l3 == length(c3, c3.ret)
      c4 == Assign(l3, r, [f \in {"y"} |-> l3.val])
      c5 == setFromMatrixColumn(c4, r, m, 2)
      l5 == length(c5, c5.ret)
      c6 == Assign(l5, r, [f \in {"z"} |-> l5.val])
  IN  Return(markDirty(c6, r), r)

\* Vector3.setFromEuler(e): e._x, e._y, e._z
setFromEuler(c, r, e) ==
  Return(markDirty(Assign(c, r,
    [f \in {"x", "y", "z"} |-> CASE f = "x" -> e[1] [] f = "y" -> e[2] [] f = "z" -> e[3]]),
    r), r)

\* Vector3.setFromColor(col): col.r, col.g, col.b
setFromColor(c, r, col) ==
  Return(markDirty(Assign(c, r,
    [f \in {"x", "y", "z"} |->
       CASE f = "x" -> col[1] [] f = "y" -> col[2] [] f = "z" -> col[3]]), r), r)

\* -------------------------------------------------- projection, reflection
\* Vector3.projectOnVector(v):
\*   denom = v.lengthSq(); if (denom === 0) return this.set(0, 0, 0);
\*   scalar = this.dot(v) / denom; return this.copy(v).multiplyScalar(scalar);
projectOnVector(c, r, v) ==
  LET denom == lengthSqOf(c, v)
      scalar == [num |-> dotOf(c, r, v), den |-> denom]
      c1 == copy(c, r, v)
  IN  IF denom = 0 THEN Vector3_set(c, r, 0, 0, 0)
      ELSE multiplyScalar(c1, c1.ret, scalar)

\* Mutant: the scratch vector is projected as the last call left it.
projectOnPlane_staleScratch(c, r, planeNormal) ==
  LET c2 == projectOnVector(c, "_vector", planeNormal)
      c3 == sub(c2, r, "_vector")
  IN  markDirty(c3, c3.ret)

\* Vector3.projectOnPlane(planeNormal):
\*   _vector.copy(this).projectOnVector(planeNormal);
\*   return this.sub(_vector).#markDirty();
projectOnPlane(c, r, planeNormal) ==
  LET c1 == copy(c, "_vector", r)
      c2 == projectOnVector(c1, c1.ret, planeNormal)
      c3 == sub(c2, r, "_vector")
  IN  markDirty(c3, c3.ret)

\* Vector3.reflect(normal):
\*   scale = 2 * this.dot(normal);
\*   return this.sub(_vector.copy(normal).multiplyScalar(scale)).#markDirty();
reflect(c, r, normal) ==
  LET scale == 2 * dotOf(c, r, normal)
      c1 == copy(c, "_vector", normal)
      c2 == multiplyScalar(c1, c1.ret, Rat(scale))
      c3 == sub(c2, r, c2.ret)
  IN  markDirty(c3, c3.ret)

\* ------------------------------------------------- trigonometric operations
\* Math.sin and Math.cos at 0, the one angle where both are integers; the
\* caller records Exact(angle = 0).
MathSin(t) == 0
MathCos(t) == 1

\* Vector3.setFromSphericalCoords(radius, phi, theta)
setFromSphericalCoords(c, r, radius, phi, theta) ==
  LET sinPhiRadius == MathSin(phi) * radius
  IN  Return(markDirty(
        Exact(Assign(c, r,
                [f \in {"x", "y", "z"} |->
                   CASE f = "x" -> sinPhiRadius * MathSin(theta)
                     [] f = "y" -> MathCos(phi) * radius
                     [] f = "z" -> sinPhiRadius * MathCos(theta)]),
              phi = 0 /\ theta = 0), r), r)

\* Vector3.setFromSpherical(s)
setFromSpherical(c, r, s) == setFromSphericalCoords(c, r, s.radius, s.phi, s.theta)

\* Vector3.setFromCylindricalCoords(radius, theta, y)
setFromCylindricalCoords(c, r, radius, theta, y) ==
  Return(markDirty(
    Exact(Assign(c, r,
            [f \in {"x", "y", "z"} |->
               CASE f = "x" -> radius * MathSin(theta)
                 [] f = "y" -> y
                 [] f = "z" -> radius * MathCos(theta)]),
          theta = 0), r), r)

\* Vector3.setFromCylindrical(cyl)
setFromCylindrical(c, r, cyl) == setFromCylindricalCoords(c, r, cyl.radius, cyl.theta, cyl.y)

\* Vector2.rotateAround(center, angle)
rotateAround(c, r, center, angle) ==
  LET co == MathCos(angle) si == MathSin(angle)
      dx == Get(c, r, "x") - Get(c, center, "x")
      dy == Get(c, r, "y") - Get(c, center, "y")
  IN  Return(markDirty(
        Exact(Assign(c, r,
                [f \in {"x", "y"} |->
                   IF f = "x" THEN dx * co - dy * si + Get(c, center, "x")
                              ELSE dx * si + dy * co + Get(c, center, "y")]),
              angle = 0), r), r)

\* Vector2.angle(): Math.atan2(-y, -x) + Math.PI, which is 0 on the positive
\* x axis and no integer anywhere else.
Vector2_angle(c, r) == ReturnVal(Exact(c, Get(c, r, "y") = 0 /\ Get(c, r, "x") > 0), 0)

\* random(): each component is a draw of Math.random(); rnd are the draws.
random(c, r, rnd) ==
  Return(markDirty(Assign(c, r,
    [f \in FieldsOf(c, r) |-> rnd[CHOOSE i \in 1..4 : FieldNames[i] = f]]), r), r)

\* Vector3.randomDirection(): theta = r1 * PI * 2, u = r2 * 2 - 1,
\* c = sqrt(1 - u * u); r1 and r2 are the draws of Math.random().
randomDirection(c, r, r1, r2) ==
  LET theta == r1 * 2
      u == r2 * 2 - 1
      cc == Sqrt(1 - u * u)
  IN  Return(markDirty(
        Exact(Assign(c, r,
                [f \in {"x", "y", "z"} |->
                   CASE f = "x" -> cc * MathCos(theta)
                     [] f = "y" -> u
                     [] f = "z" -> cc * MathSin(theta)]),
              r1 = 0 /\ IsSquare(1 - u * u)), r), r)

\* ---------------------------------------------------- axis-angle (Vector4)
\* Mutant: the axis is always q.x / s, q.y / s, q.z / s, where 0 / 0 is NaN
\* (and a non-zero number over 0 an infinity, which the model does not hold).
setAxisAngleFromQuaternion_alwaysDivides(c, r, q) ==
  LET s2 == 1 - q.w * q.w
      s == Sqrt(s2)
      over(n) == IF s = 0 THEN NaN ELSE Quot(n, s)
      exact(n) == IF s = 0 THEN n = 0 ELSE Divides(s, n)
  IN  Return(markDirty(
        Exact(Assign(c, r,
                [f \in AllFields |->
                   CASE f = "w" -> 0
                     [] f = "x" -> over(q.x)
                     [] f = "y" -> over(q.y)
                     [] f = "z" -> over(q.z)]),
              AcosExact(q.w, 1) /\ IsSquare(s2)
                /\ exact(q.x) /\ exact(q.y) /\ exact(q.z)),
        r), r)

\* Vector4.setAxisAngleFromQuaternion(q): w = 2 * acos(q.w);
\* s = sqrt(1 - q.w * q.w); s < 0.0001 gives the axis (1, 0, 0), otherwise
\* q.x / s, q.y / s, q.z / s.
setAxisAngleFromQuaternion(c, r, q) ==
  LET s2 == 1 - q.w * q.w
      s == Sqrt(s2)
      degenerate == s * 10000 < 1
  IN  Return(markDirty(
        Exact(Assign(c, r,
                [f \in AllFields |->
                   CASE f = "w" -> 0
                     [] f = "x" -> IF degenerate THEN 1 ELSE Quot(q.x, s)
                     [] f = "y" -> IF degenerate THEN 0 ELSE Quot(q.y, s)
                     [] f = "z" -> IF degenerate THEN 0 ELSE Quot(q.z, s)]),
              AcosExact(q.w, 1) /\ IsSquare(s2)
                /\ (degenerate \/ (Divides(s, q.x) /\ Divides(s, q.y) /\ Divides(s, q.z)))),
        r), r)

\* Mutant: the axis is always recovered from the first diagonal term.
setAxisAngleFromRotationMatrix_alwaysFromX(c, r, m) ==
  LET m11 == El(m, 0) m12 == El(m, 4) m13 == El(m, 8)
      m21 == El(m, 1) m22 == El(m, 5) m23 == El(m, 9)
      m31 == El(m, 2) m32 == El(m, 6) m33 == El(m, 10)
      \* Math.abs(d) < epsilon (0.01) and < epsilon2 (0.1)
      lt001(d) == Abs(d) * 100 < 1
      lt01(d) == Abs(d) * 10 < 1
      symmetric == lt001(m12 - m21) /\ lt001(m13 - m31) /\ lt001(m23 - m32)
      identity == lt01(m12 + m21) /\ lt01(m13 + m31) /\ lt01(m23 + m32)
                    /\ lt01(m11 + m22 + m33 - 3)
      \* if (...) { this.set(1, 0, 0, 0); this.#markDirty(); return this; }
      c1 == Vector4_set(c, r, 1, 0, 0, 0)
      \* the 180 degree branch.  xx = (m11 + 1) / 2, ... and xy = (m12 + m21) / 4,
      \* ... are compared and divided as the numerators over 2 and over 4;
      \* n / 0 is NaN for n = 0 (and an infinity otherwise, which the model
      \* does not hold).
      xx2 == m11 + 1
      yy2 == m22 + 1
      zz2 == m33 + 1
      xy4 == m12 + m21
      xz4 == m13 + m31
      yz4 == m23 + m32
      root(n2) == Sqrt(Quot(n2, 2))
      rootExact(n2) == Divides(2, n2) /\ IsSquare(Quot(n2, 2))
      over(n4, d) == IF d = 0 THEN NaN ELSE Quot(Quot(n4, 4), d)
      overExact(n4, d) ==
        Divides(4, n4) /\ (IF d = 0 THEN n4 = 0 ELSE Divides(d, Quot(n4, 4)))
      branch == "x"
      x == CASE branch = "x" -> root(xx2)
             [] branch = "y" -> over(xy4, root(yy2))
             [] branch = "z" -> over(xz4, root(zz2))
      y == CASE branch = "x" -> over(xy4, root(xx2))
             [] branch = "y" -> root(yy2)
             [] branch = "z" -> over(yz4, root(zz2))
      z == CASE branch = "x" -> over(xz4, root(xx2))
             [] branch = "y" -> over(yz4, root(yy2))
             [] branch = "z" -> root(zz2)
      exact ==
        CASE branch = "x" -> rootExact(xx2) /\ overExact(xy4, root(xx2)) /\ overExact(xz4, root(xx2))
          [] branch = "y" -> rootExact(yy2) /\ overExact(xy4, root(yy2)) /\ overExact(yz4, root(yy2))
          [] branch = "z" -> rootExact(zz2) /\ overExact(xz4, root(zz2)) /\ overExact(yz4, root(zz2))
      \* this.set(x, y, z, angle); this.#markDirty(); return this;
      c2 == Vector4_set(Exact(c, exact), r, x, y, z, PI)
      s2 == (m32 - m23) * (m32 - m23) + (m13 - m31) * (m13 - m31)
              + (m21 - m12) * (m21 - m12)
      \* if (Math.abs(s) < 0.001) s = 1;
      s == IF Sqrt(s2) * 1000 < 1 THEN 1 ELSE Sqrt(s2)
  IN  IF symmetric
        THEN IF identity THEN Return(markDirty(c1, r), r)
                         ELSE Return(markDirty(c2, r), r)
        ELSE Return(markDirty(
               Exact(Assign(c, r,
                       [f \in AllFields |->
                          CASE f = "x" -> Quot(m32 - m23, s)
                            [] f = "y" -> Quot(m13 - m31, s)
                            [] f = "z" -> Quot(m21 - m12, s)
                            [] f = "w" -> 0]),
                     IsSquare(s2) /\ Divides(s, m32 - m23) /\ Divides(s, m13 - m31)
                       /\ Divides(s, m21 - m12)
                       /\ AcosExact(m11 + m22 + m33 - 1, 2)), r), r)

\* Vector4.setAxisAngleFromRotationMatrix(m)
setAxisAngleFromRotationMatrix(c, r, m) ==
  LET m11 == El(m, 0) m12 == El(m, 4) m13 == El(m, 8)
      m21 == El(m, 1) m22 == El(m, 5) m23 == El(m, 9)
      m31 == El(m, 2) m32 == El(m, 6) m33 == El(m, 10)
      \* Math.abs(d) < epsilon (0.01) and < epsilon2 (0.1)
      lt001(d) == Abs(d) * 100 < 1
      lt01(d) == Abs(d) * 10 < 1
      symmetric == lt001(m12 - m21) /\ lt001(m13 - m31) /\ lt001(m23 - m32)
      identity == lt01(m12 + m21) /\ lt01(m13 + m31) /\ lt01(m23 + m32)
                    /\ lt01(m11 + m22 + m33 - 3)
      \* if (...) { this.set(1, 0, 0, 0); this.#markDirty(); return this; }
      c1 == Vector4_set(c, r, 1, 0, 0, 0)
      \* the 180 degree branch.  xx = (m11 + 1) / 2, ... and xy = (m12 + m21) / 4,
      \* ... are compared and divided as the numerators over 2 and over 4;
      \* n / 0 is NaN for n = 0 (and an infinity otherwise, which the model
      \* does not hold).
      xx2 == m11 + 1
      yy2 == m22 + 1
      zz2 == m33 + 1
      xy4 == m12 + m21
      xz4 == m13 + m31
      yz4 == m23 + m32
      root(n2) == Sqrt(Quot(n2, 2))
      rootExact(n2) == Divides(2, n2) /\ IsSquare(Quot(n2, 2))
      over(n4, d) == IF d = 0 THEN NaN ELSE Quot(Quot(n4, 4), d)
      overExact(n4, d) ==
        Divides(4, n4) /\ (IF d = 0 THEN n4 = 0 ELSE Divides(d, Quot(n4, 4)))
      branch == IF xx2 > yy2 /\ xx2 > zz2 THEN "x" ELSE IF yy2 > zz2 THEN "y" ELSE "z"
      x == CASE branch = "x" -> root(xx2)
             [] branch = "y" -> over(xy4, root(yy2))
             [] branch = "z" -> over(xz4, root(zz2))
      y == CASE branch = "x" -> over(xy4, root(xx2))
             [] branch = "y" -> root(yy2)
             [] branch = "z" -> over(yz4, root(zz2))
      z == CASE branch = "x" -> over(xz4, root(xx2))
             [] branch = "y" -> over(yz4, root(yy2))
             [] branch = "z" -> root(zz2)
      exact ==
        CASE branch = "x" -> rootExact(xx2) /\ overExact(xy4, root(xx2)) /\ overExact(xz4, root(xx2))
          [] branch = "y" -> rootExact(yy2) /\ overExact(xy4, root(yy2)) /\ overExact(yz4, root(yy2))
          [] branch = "z" -> rootExact(zz2) /\ overExact(xz4, root(zz2)) /\ overExact(yz4, root(zz2))
      \* this.set(x, y, z, angle); this.#markDirty(); return this;
      c2 == Vector4_set(Exact(c, exact), r, x, y, z, PI)
      s2 == (m32 - m23) * (m32 - m23) + (m13 - m31) * (m13 - m31)
              + (m21 - m12) * (m21 - m12)
      \* if (Math.abs(s) < 0.001) s = 1;
      s == IF Sqrt(s2) * 1000 < 1 THEN 1 ELSE Sqrt(s2)
  IN  IF symmetric
        THEN IF identity THEN Return(markDirty(c1, r), r)
                         ELSE Return(markDirty(c2, r), r)
        ELSE Return(markDirty(
               Exact(Assign(c, r,
                       [f \in AllFields |->
                          CASE f = "x" -> Quot(m32 - m23, s)
                            [] f = "y" -> Quot(m13 - m31, s)
                            [] f = "z" -> Quot(m21 - m12, s)
                            [] f = "w" -> 0]),
                     IsSquare(s2) /\ Divides(s, m32 - m23) /\ Divides(s, m13 - m31)
                       /\ Divides(s, m21 - m12)
                       /\ AcosExact(m11 + m22 + m33 - 1, 2)), r), r)

\* ------------------------------------------------------------------- inputs
\* Arguments the caller passes.  An argument list with undefined in a place
\* is a call that leaves that argument out.
Scalars == {-1, 0, 2}
Indices == -1..4
Offsets == 0..MaxOffset

\* A caller's array long enough for every offset: 1, 0, 1, 0, 1, ...
SampleArray == [k \in 1..(MaxOffset + 4) |-> k % 2]

Identity3 == <<1, 0, 0,  0, 1, 0,  0, 0, 1>>
Scale3 == <<2, 0, 0,  0, -1, 0,  0, 0, 1>>
Matrices3 == {Identity3, Scale3}

Identity4 == <<1, 0, 0, 0,  0, 1, 0, 0,  0, 0, 1, 0,  0, 0, 0, 1>>
\* scale (2, 1, -1), then translate by (1, 0, 0)
Affine4 == <<2, 0, 0, 0,  0, 1, 0, 0,  0, 0, -1, 0,  1, 0, 0, 1>>
\* the identity with m12 = 1: not symmetric, trace 3
Shear4 == <<1, 0, 0, 0,  1, 1, 0, 0,  0, 0, 1, 0,  0, 0, 0, 1>>
Matrices4 == {Identity4, Affine4, Shear4}

\* The rotations by 180 degrees about the x, y and z axes.
HalfTurnX == <<1, 0, 0, 0,  0, -1, 0, 0,  0, 0, -1, 0,  0, 0, 0, 1>>
HalfTurnY == <<-1, 0, 0, 0,  0, 1, 0, 0,  0, 0, -1, 0,  0, 0, 0, 1>>
HalfTurnZ == <<-1, 0, 0, 0,  0, -1, 0, 0,  0, 0, 1, 0,  0, 0, 0, 1>>
Rotations4 == {Identity4, HalfTurnX, HalfTurnY, HalfTurnZ, Shear4}

Cameras ==
  {[matrixWorldInverse |-> Identity4, projectionMatrix |-> Identity4,
    projectionMatrixInverse |-> Identity4, matrixWorld |-> Identity4],
   [matrixWorldInverse |-> Affine4, projectionMatrix |-> Identity4,
    projectionMatrixInverse |-> Identity4, matrixWorld |-> Affine4]}

Quaternions == {[x |-> 0, y |-> 0, z |-> 0, w |-> 1], [x |-> 1, y |-> 0, z |-> 0, w |-> 0]}

\* Constructor argument lists: none (the factory's defaults), and two given.
NoArgs == <<undefined, undefined, undefined, undefined>>
SeedsA == {NoArgs, <<1, -1, 0, 0>>}
SeedsB == {<<0, 1, 0, 0>>}
\* The classes of a and b: the same class, or a Vector4 with a Vector3.
TypePairs == {<<2, 2>>, <<3, 3>>, <<4, 4>>, <<4, 3>>}

\* -------------------------------------------------------------------- state
NoCall ==
  [op |-> "none", recv |-> "none", vargs |-> <<>>, nargs |-> <<>>, array |-> <<>>,
   ret |-> "undefined", val |-> 0, err |-> "none", notes |-> <<>>, seen |-> <<>>,
   pre |-> <<>>, had |-> 0]

\* ---------------------------------------------- MathUtils: euclideanModulo
\* Mutant: the plain remainder n % m.
euclideanModulo_plainRem(n, m) ==
  IF m = 0 THEN NaN ELSE Sign(n) * (Abs(n) % Abs(m))

\* euclideanModulo(n, m): return ((n % m) + m) % m.  The remainder n % m has
\* the sign of n; the remainder by 0 is NaN, and NaN goes through % and +.
euclideanModulo(n, m) ==
  LET JsRem(p, q) ==
        IF p = NaN \/ q = NaN \/ q = 0 THEN NaN ELSE Sign(p) * (Abs(p) % Abs(q))
      JsAdd(p, q) == IF p = NaN \/ q = NaN THEN NaN ELSE p + q
  IN  JsRem(JsAdd(JsRem(n, m), m), m)

\* ------------------------------------------ MathUtils: typed-array encodings
\* array.constructor: the seven the switch knows.
Encodings ==
  {"Float32Array", "Uint32Array", "Uint16Array", "Uint8Array",
   "Int32Array", "Int16Array", "Int8Array"}

\* The factor of each integer encoding: 4294967295, 65535, 255, 2147483647,
\* 32767, 127.
Scale(ctor) ==
  CASE ctor = "Uint32Array" -> <<65535, 65535>>
    [] ctor = "Uint16Array" -> <<0, 65535>>
    [] ctor = "Uint8Array" -> <<0, 255>>
    [] ctor = "Int32Array" -> <<32767, 65535>>
    [] ctor = "Int16Array" -> <<0, 32767>>
    [] ctor = "Int8Array" -> <<0, 127>>

\* n * v for a small integer n, and v < w.
MulBig(n, v) == <<n * v[1] + ((n * v[2]) \div Half), (n * v[2]) % Half>>
LessBig(v, w) == v[1] < w[1] \/ (v[1] = w[1] /\ v[2] < w[2])

\* What a MathUtils function gives back: a value returned or an Error thrown.
Returns(v) == [err |-> "none", val |-> v]
Throws(message) == [err |-> message, val |-> undefined]

\* Mutant: an unknown constructor is taken for a float array.
MathUtils_normalize_passesUnknown(value, ctor) ==
  IF ctor \in Encodings \ {"Float32Array"}
    THEN Returns(MulBig(value, Scale(ctor)))
    ELSE Returns(Big(value))

\* normalize(value, array), value an integer: Math.round(value * factor) is
\* value * factor.
MathUtils_normalize(value, ctor) ==
  IF ctor = "Float32Array" THEN Returns(Big(value))
  ELSE IF ctor \in Encodings THEN Returns(MulBig(value, Scale(ctor)))
  ELSE Throws("Invalid type")

\* Mutant: the signed encodings are not clamped.
denormalize_noClamp(value, ctor) ==
  IF ctor = "Float32Array" THEN Returns([num |-> value, den |-> Big(1)])
  ELSE IF ctor \in Encodings THEN Returns([num |-> value, den |-> Scale(ctor)])
  ELSE Throws("Invalid type")

\* denormalize(value, array): value / factor, and Math.max(value / factor, -1)
\* for the signed encodings.  The quotient is kept as the fraction num / den;
\* -1 is -factor / factor.
denormalize(value, ctor) ==
  LET least == MulBig(0 - 1, Scale(ctor))
  IN  IF ctor = "Float32Array" THEN Returns([num |-> value, den |-> Big(1)])
      ELSE IF ctor \in {"Int32Array", "Int16Array", "Int8Array"} THEN
        Returns([num |-> IF LessBig(value, least) THEN least ELSE value,
                 den |-> Scale(ctor)])
      ELSE IF ctor \in Encodings THEN Returns([num |-> value, den |-> Scale(ctor)])
      ELSE Throws("Invalid type")

\* --------------------------------------------- MathUtils: diffTypedArray
\* Mutant: the shorter length is used.
diffTypedArray_truncates(arr1, arr2) ==
  LET diffArray == [i \in 1..Min2(Len(arr1), Len(arr2)) |-> Abs(arr1[i] - arr2[i])]
      RECURSIVE totalDiff(_)
      totalDiff(n) == IF n = 0 THEN 0 ELSE totalDiff(n - 1) + diffArray[n]
  IN  Returns([diffArray |-> diffArray, totalDiff |-> totalDiff(Len(diffArray))])

\* diffTypedArray(arr1, arr2): throws on different lengths; otherwise
\* diffArray[i] = Math.abs(arr1[i] - arr2[i]) and totalDiff their running sum.
diffTypedArray(arr1, arr2) ==
  LET diffArray == [i \in 1..Len(arr1) |-> Abs(arr1[i] - arr2[i])]
      RECURSIVE totalDiff(_)
      totalDiff(n) == IF n = 0 THEN 0 ELSE totalDiff(n - 1) + diffArray[n]
  IN  IF Len(arr1) # Len(arr2) THEN Throws("Array length mismatch")
      ELSE Returns([diffArray |-> diffArray, totalDiff |-> totalDiff(Len(diffArray))])

\* No seededRandom call made yet.
NoDraws == [since |-> undefined, replaced |-> <<>>, out |-> <<>>]

\* The scratch vector `_vector` of Vector3.js: the file uses it and does not
\* declare it; it is a Vector3 of the module, out of the caller's reach.
ScratchVector == NewVector(3, undefined, undefined, undefined, undefined)

\* After construction: a and b built by their constructors (the calls that
\* just returned), the scratch vector of Vector3.js built.
Init ==
  /\ \E tp \in TypePairs, sa \in SeedsA, sb \in SeedsB :
       vec = [id \in VecIds |->
                CASE id = "a" -> NewVector(tp[1], sa[1], sa[2], sa[3], sa[4])
                  [] id = "b" -> NewVector(tp[2], sb[1], sb[2], sb[3], sb[4])
                  [] id = "_vector" -> ScratchVector
                  [] OTHER -> NoVector]
  /\ arr = <<>>
  /\ pc = "returned"
  /\ last = [NoCall EXCEPT !.op = "new", !.pre = vec]
  /\ left = 0
  /\ seed = InitialSeed
  /\ drawn = NoDraws
  /\ assigned = <<>>

\* The components of every object are numbers, NaN or undefined, and the
\* Manhattan length of every object is within the bound.
InRange(h) ==
  \A id \in VecIds :
    LET m(f) == IF f \in Fields(h[id].type) /\ h[id].c[f] \notin {undefined, NaN, PI}
                  THEN Abs(h[id].c[f]) ELSE 0
    IN  m("x") + m("y") + m("z") + m("w") <= MaxNorm

\* Every component of the vectors `ids` is a number.
Numeric(ids) == \A id \in ids : \A f \in Fields(vec[id].type) : vec[id].c[f] \in Val

\* Vector arguments of the receiver's class.
SameClass(r) == {v \in {"a", "b"} : vec[v].type = vec[r].type}

Is(r, t) == vec[r].type = t

\* A call returns: the heap is as the method left it and the caller holds
\* what the call did, with the heap as it was when the call was made (pre).
Done(op, r, vargs, nargs, array, c) ==
  /\ c.ok
  /\ InRange(c.h)
  /\ vec' = c.h
  /\ pc' = "returned"
  /\ last' = [op |-> op, recv |-> r, vargs |-> vargs, nargs |-> nargs, array |-> array,
              ret |-> c.ret, val |-> c.val, err |-> c.err, notes |-> c.notes,
              seen |-> c.seen, pre |-> vec, had |-> left]
  /\ left' = c.left
  /\ UNCHANGED <<seed, drawn, assigned>>

\* A method call made by the idle caller on a, which leaves arr alone.
Call(op, vargs, nargs, c) ==
  /\ pc = "idle"
  /\ Done(op, "a", vargs, nargs, <<>>, c)
  /\ arr' = arr

\* The caller assigns the onChange slot of one of its vectors: null, or the
\* spy it keeps for that vector.
SpyOf == [r \in {"a", "b"} |-> IF r = "a" THEN "spyA" ELSE "spyB"]

Attach ==
  /\ pc = "idle"
  /\ \E r \in {"a", "b"}, f \in Slots :
       /\ f # vec[r].onChange
       /\ f \in {"null", SpyOf[r]}
       /\ vec' = [vec EXCEPT ![r].onChange = f]
  /\ UNCHANGED <<arr, pc, last, left, seed, drawn, assigned>>

\* The caller hands a the re-entrant callback, with a number of calls to make.
Arm ==
  /\ pc = "idle"
  /\ vec["a"].onChange = "null"
  /\ left = 0
  /\ \E n \in 1..MaxNested :
       /\ vec' = [vec EXCEPT !["a"].onChange = Reentrant]
       /\ left' = n
  /\ UNCHANGED <<arr, pc, last, seed, drawn, assigned>>

\* The caller assigns a.onChange twice, with calls before, between and
\* after: first spyA (which of the two spies comes first makes no
\* difference), then spyB or null.  It keeps a record of what it assigned.
Reassign ==
  /\ pc = "idle"
  /\ Len(assigned) < 2
  /\ \E f \in Slots :
       /\ f # vec["a"].onChange
       /\ assigned = <<>> => f = "spyA"
       /\ vec' = [vec EXCEPT !["a"].onChange = f]
       /\ assigned' = Append(assigned, f)
  /\ UNCHANGED <<arr, pc, last, left, seed, drawn>>

\* The caller is done with what the call returned: a clone or an array it
\* held is dropped.
Ack ==
  /\ pc = "returned"
  /\ pc' = "idle"
  /\ last' = NoCall
  /\ arr' = <<>>
  /\ vec' = [vec EXCEPT !["c"] = NoVector]
  /\ UNCHANGED <<left, seed, drawn, assigned>>

\* ------------------------------------------------------ actions: MathUtils
\* The seeds the caller reseeds with, and the draws it makes in a row.
Seeds == {0 - 1, 0, 1, 42}
MaxDraws == 3

\* seededRandom(s) and seededRandom(): the caller notes the reseed (with the
\* stored seed it replaced) and the values drawn since.
CallSeededRandom ==
  /\ pc = "idle"
  /\ \E s \in Seeds \cup {undefined} :
       LET c == seededRandom(seed, s)
       IN  /\ s = undefined => Len(drawn.out) < MaxDraws
           /\ seed' = c.seed
           /\ drawn' = IF s # undefined
                         THEN [since |-> s, replaced |-> seed, out |-> <<c.ret>>]
                         ELSE [drawn EXCEPT !.out = Append(@, c.ret)]
  /\ UNCHANGED <<vec, arr, pc, last, left, assigned>>

\* A MathUtils function called by the idle caller has returned or thrown.
MathCall(op, nargs, array, c) ==
  /\ pc = "idle"
  /\ pc' = "returned"
  /\ last' = [NoCall EXCEPT !.op = op, !.nargs = nargs, !.array = array,
                            !.val = c.val, !.err = c.err]
  /\ UNCHANGED <<vec, arr, left, seed, drawn, assigned>>

\* Inputs: the range of euclideanModulo's arguments; constructors the
\* switch of normalize / denormalize knows and others a caller has; the
\* values denormalized, which are the ends of each integer range and what
\* lies around 0; arrays of up to MaxLen elements.
MaxMod == 3
Constructors == Encodings \cup {"Float64Array", "Uint8ClampedArray", "BigInt64Array", "Array"}
Stored ==
  {Big(0 - 1), Big(0), Big(1)}
    \cup UNION {{Scale(e), MulBig(0 - 1, Scale(e)), AddBig(MulBig(0 - 1, Scale(e)), Big(0 - 1))} :
                  e \in Encodings \ {"Float32Array"}}
MaxLen == 2
Arrays == UNION {[1..n -> 0..2] : n \in 0..MaxLen}

\* euclideanModulo(n, m), normalize(value, array), denormalize(value, array)
\* and diffTypedArray(arr1, arr2), each called once by the caller.
CallMathUtils ==
  \/ \E n \in (0 - MaxMod - 1)..(MaxMod + 1), m \in (0 - MaxMod)..MaxMod :
       MathCall("euclideanModulo", <<n, m>>, <<>>, Returns(euclideanModulo(n, m)))
  \/ \E value \in {0 - 1, 0, 1}, ctor \in Constructors :
       MathCall("MathUtils.normalize", <<value>>, ctor, MathUtils_normalize(value, ctor))
  \/ \E value \in Stored, ctor \in Constructors :
       MathCall("MathUtils.denormalize", value, ctor, denormalize(value, ctor))
  \/ \E arr1 \in Arrays, arr2 \in Arrays :
       MathCall("diffTypedArray", <<>>, <<arr1, arr2>>, diffTypedArray(arr1, arr2))

\* ------------------------------------------------------- actions: mutators
\* Each action is one public method called by the caller on a.  Here is
\* the context the call starts in.
Here == [Ctx(vec) EXCEPT !.left = left]

SetArgs == {<<0, 0, 0, 0>>, <<1, -1, 0, 0>>, <<0, 0, 1, 1>>}

CallSet ==
  \E t \in SetArgs :
    \/ Is("a", 2) /\ Call("set", <<>>, <<t[1], t[2]>>, Vector2_set(Here, "a", t[1], t[2]))
    \/ Is("a", 3) /\ \E z \in {t[3], undefined} :
         Call("set", <<>>, <<t[1], t[2], z>>, Vector3_set(Here, "a", t[1], t[2], z))
    \/ Is("a", 4) /\ Call("set", <<>>, t, Vector4_set(Here, "a", t[1], t[2], t[3], t[4]))

CallSetScalar == \E s \in Scalars : Call("setScalar", <<>>, <<s>>, setScalar(Here, "a", s))

\* setX(x), setY(y), setZ(z), setW(w)
CallSetAxis ==
  \/ \E s \in Scalars : Call("setX", <<>>, <<s>>, setX(Here, "a", s))
  \/ \E s \in Scalars : Call("setY", <<>>, <<s>>, setY(Here, "a", s))
  \/ \E s \in Scalars : ~Is("a", 2) /\ Call("setZ", <<>>, <<s>>, setZ(Here, "a", s))
  \/ \E s \in Scalars : Is("a", 4) /\ Call("setW", <<>>, <<s>>, setW(Here, "a", s))

CallSetComponent ==
  \E i \in Indices, s \in {2} :
    Call("setComponent", <<>>, <<i, s>>, setComponent(Here, "a", i, s))

\* copy(v): v of the receiver's class; a Vector4 also copies a Vector3.
CallCopy ==
  \E v \in {"a", "b"} :
    \/ ~Is("a", 4) /\ v \in SameClass("a") /\ Call("copy", <<v>>, <<>>, copy(Here, "a", v))
    \/ Is("a", 4) /\ Call("copy", <<v>>, <<>>, Vector4_copy(Here, "a", v))

\* add(v), sub(v), multiply(v), divide(v)
CallComponentwise ==
  \/ \E v \in SameClass("a") : Numeric({"a", v}) /\ Call("add", <<v>>, <<>>, add(Here, "a", v))
  \/ \E v \in SameClass("a") : Numeric({"a", v}) /\ Call("sub", <<v>>, <<>>, sub(Here, "a", v))
  \/ \E v \in SameClass("a") :
       Numeric({"a", v}) /\ Call("multiply", <<v>>, <<>>, multiply(Here, "a", v))
  \/ \E v \in SameClass("a") : Numeric({"a", v}) /\ Call("divide", <<v>>, <<>>, divide(Here, "a", v))

\* addScalar(s), subScalar(s), multiplyScalar(s), divideScalar(s)
CallScalarArithmetic ==
  \/ \E s \in Scalars : Numeric({"a"}) /\ Call("addScalar", <<>>, <<s>>, addScalar(Here, "a", s))
  \/ \E s \in Scalars : Numeric({"a"}) /\ Call("subScalar", <<>>, <<s>>, subScalar(Here, "a", s))
  \/ \E s \in Scalars :
       Numeric({"a"}) /\ Call("multiplyScalar", <<>>, <<s>>, multiplyScalar(Here, "a", Rat(s)))
  \/ \E s \in Scalars :
       Numeric({"a"}) /\ s # 0 /\ Call("divideScalar", <<>>, <<s>>, divideScalar(Here, "a", s))

\* addVectors(a, b), subVectors(a, b), multiplyVectors(a, b), crossVectors(a, b)
CallOfTwoVectors ==
  \/ \E v1 \in SameClass("a"), v2 \in SameClass("a") \ {"a"} :
       Numeric({v1, v2}) /\ Call("addVectors", <<v1, v2>>, <<>>, addVectors(Here, "a", v1, v2))
  \/ \E v1 \in SameClass("a"), v2 \in SameClass("a") \ {"a"} :
       Numeric({v1, v2}) /\ Call("subVectors", <<v1, v2>>, <<>>, subVectors(Here, "a", v1, v2))
  \/ \E v1 \in SameClass("a"), v2 \in SameClass("a") \ {"a"} :
       /\ Is("a", 3) /\ Numeric({v1, v2})
       /\ Call("multiplyVectors", <<v1, v2>>, <<>>, multiplyVectors(Here, "a", v1, v2))
  \/ \E v1 \in SameClass("a"), v2 \in SameClass("a") \ {"a"} :
       /\ Is("a", 3) /\ Numeric({v1, v2})
       /\ Call("crossVectors", <<v1, v2>>, <<>>, crossVectors(Here, "a", v1, v2))

CallAddScaledVector ==
  \E v \in SameClass("a"), s \in Scalars :
    Numeric({"a", v}) /\ Call("addScaledVector", <<v>>, <<s>>, addScaledVector(Here, "a", v, s))

\* normalize(), setLength(length), clampLength(min, max)
CallLengthSetters ==
  \/ Numeric({"a"}) /\ Call("normalize", <<>>, <<>>, normalize(Here, "a"))
  \/ \E s \in Scalars : Numeric({"a"}) /\ Call("setLength", <<>>, <<s>>, setLength(Here, "a", s))
  \/ \E lo \in Scalars, hi \in Scalars :
       Numeric({"a"}) /\ 0 <= lo /\ lo <= hi
         /\ Call("clampLength", <<>>, <<lo, hi>>, clampLength(Here, "a", lo, hi))

\* lerp(v, alpha), lerpVectors(v1, v2, alpha)
CallLerps ==
  \/ \E v \in SameClass("a"), s \in Scalars :
       Numeric({"a", v}) /\ Call("lerp", <<v>>, <<s>>, lerp(Here, "a", v, s))
  \/ \E v1 \in SameClass("a"), v2 \in SameClass("a") \ {"a"}, s \in Scalars :
       Numeric({v1, v2}) /\ Call("lerpVectors", <<v1, v2>>, <<s>>, lerpVectors(Here, "a", v1, v2, s))

\* clamp(min, max), clampScalar(minVal, maxVal)
CallClamps ==
  \/ \E v1 \in SameClass("a"), v2 \in SameClass("a") \ {"a"} :
       Numeric({"a", v1, v2}) /\ Call("clamp", <<v1, v2>>, <<>>, clamp(Here, "a", v1, v2))
  \/ \E lo \in Scalars, hi \in Scalars :
       Numeric({"a"}) /\ lo < hi
         /\ Call("clampScalar", <<>>, <<lo, hi>>, clampScalar(Here, "a", lo, hi))

\* floor(), ceil(), round(), roundToZero(), negate()
CallRounding ==
  \/ Numeric({"a"}) /\ Call("floor", <<>>, <<>>, floor(Here, "a"))
  \/ Numeric({"a"}) /\ Call("ceil", <<>>, <<>>, ceil(Here, "a"))
  \/ Numeric({"a"}) /\ Call("round", <<>>, <<>>, round(Here, "a"))
  \/ Numeric({"a"}) /\ Call("roundToZero", <<>>, <<>>, roundToZero(Here, "a"))
  \/ Numeric({"a"}) /\ Call("negate", <<>>, <<>>, negate(Here, "a"))

\* random(), randomDirection()
CallRandoms ==
  \/ Call("random", <<>>, <<>>, random(Here, "a", <<0, 0, 0, 0>>))
  \/ Is("a", 3) /\ Call("randomDirection", <<>>, <<>>, randomDirection(Here, "a", 0, 0))

CallFromBufferAttribute ==
  \E i \in 0..1 :
    Call("fromBufferAttribute", <<>>, <<i>>,
         fromBufferAttribute(Here, "a", <<<<1, 0, -1, 0>>, <<0, 1, 0, 1>>>>, i))

\* ------------------------------------------------- actions: Vector3 mutators
CallCross ==
  \E v \in SameClass("a") :
    Is("a", 3) /\ Numeric({"a", v}) /\ Call("cross", <<v>>, <<>>, cross(Here, "a", v))

\* projectOnVector(v), projectOnPlane(planeNormal), reflect(normal)
CallProjections ==
  \/ \E v \in SameClass("a") :
       /\ Is("a", 3) /\ Numeric({"a", v})
       /\ Call("projectOnVector", <<v>>, <<>>, projectOnVector(Here, "a", v))
  \/ \E v \in SameClass("a") \ {"a"} :
       /\ Is("a", 3) /\ Numeric({"a", v})
       /\ Call("projectOnPlane", <<v>>, <<>>, projectOnPlane(Here, "a", v))
  \/ \E v \in SameClass("a") \ {"a"} :
       Is("a", 3) /\ Numeric({"a", v}) /\ Call("reflect", <<v>>, <<>>, reflect(Here, "a", v))

CallApplyMatrix3 ==
  \E m \in Matrices3 :
    /\ Numeric({"a"})
    /\ \/ Is("a", 2) /\ Call("applyMatrix3", <<>>, m, Vector2_applyMatrix3(Here, "a", m))
       \/ Is("a", 3) /\ Call("applyMatrix3", <<>>, m, applyMatrix3(Here, "a", m))

CallApplyNormalMatrix ==
  \E m \in Matrices3 :
    /\ Is("a", 3) /\ Numeric({"a"})
    /\ Call("applyNormalMatrix", <<>>, m, applyNormalMatrix(Here, "a", m))

CallApplyMatrix4 ==
  \E m \in Matrices4 :
    /\ Numeric({"a"})
    /\ \/ Is("a", 3) /\ Call("applyMatrix4", <<>>, m, applyMatrix4(Here, "a", m))
       \/ Is("a", 4) /\ Call("applyMatrix4", <<>>, m, Vector4_applyMatrix4(Here, "a", m))

CallTransformDirection ==
  \E m \in Matrices4 :
    /\ Is("a", 3) /\ Numeric({"a"})
    /\ Call("transformDirection", <<>>, m, transformDirection(Here, "a", m))

\* project(camera), unproject(camera)
CallCamera ==
  \/ \E cam \in Cameras :
       /\ Is("a", 3) /\ Numeric({"a"})
       /\ Call("project", <<>>, cam.matrixWorldInverse, project(Here, "a", cam))
  \/ \E cam \in Cameras :
       /\ Is("a", 3) /\ Numeric({"a"})
       /\ Call("unproject", <<>>, cam.matrixWorld, unproject(Here, "a", cam))

\* applyQuaternion(q), applyEuler(euler), applyAxisAngle(axis, angle)
CallRotations ==
  \/ \E q \in Quaternions :
       /\ Is("a", 3) /\ Numeric({"a"})
       /\ Call("applyQuaternion", <<>>, <<q.x, q.y, q.z, q.w>>, applyQuaternion(Here, "a", q))
  \/ \E q \in Quaternions :
       /\ Is("a", 3) /\ Numeric({"a"})
       /\ Call("applyEuler", <<>>, <<q.x, q.y, q.z, q.w>>, applyEuler(Here, "a", q))
  \/ \E q \in Quaternions :
       /\ Is("a", 3) /\ Numeric({"a"})
       /\ Call("applyAxisAngle", <<>>, <<q.x, q.y, q.z, q.w>>, applyAxisAngle(Here, "a", q))

\* setFromMatrixPosition(m), setFromMatrixScale(m), setFromMatrixColumn(m, index), setFromMatrix3Column(m, index)
CallSetFromMatrix ==
  \/ \E m \in Matrices4 :
       Is("a", 3) /\ Call("setFromMatrixPosition", <<>>, m, setFromMatrixPosition(Here, "a", m))
  \/ \E m \in Matrices4 :
       Is("a", 3) /\ Call("setFromMatrixScale", <<>>, m, setFromMatrixScale(Here, "a", m))
  \/ \E m \in {Affine4}, i \in 0..2 :
       Is("a", 3) /\ Call("setFromMatrixColumn", <<>>, <<i>>, setFromMatrixColumn(Here, "a", m, i))
  \/ \E m \in {Scale3}, i \in 0..2 :
       Is("a", 3) /\ Call("setFromMatrix3Column", <<>>, <<i>>, setFromMatrix3Column(Here, "a", m, i))

\* setFromEuler(e), setFromColor(c)
CallSetFromTriple ==
  \/ Is("a", 3) /\ Call("setFromEuler", <<>>, <<1, 0, -1>>, setFromEuler(Here, "a", <<1, 0, -1>>))
  \/ Is("a", 3) /\ Call("setFromColor", <<>>, <<0, 1, 1>>, setFromColor(Here, "a", <<0, 1, 1>>))

\* setFromSpherical[Coords], setFromCylindrical[Coords]
CallSetFromCoords ==
  \/ \E s \in Scalars :
       /\ Is("a", 3)
       /\ \/ Call("setFromSphericalCoords", <<>>, <<s, 0, 0>>,
                  setFromSphericalCoords(Here, "a", s, 0, 0))
          \/ Call("setFromSpherical", <<>>, <<s, 0, 0>>,
                  setFromSpherical(Here, "a", [radius |-> s, phi |-> 0, theta |-> 0]))
  \/ \E s \in Scalars, y \in {1} :
       /\ Is("a", 3)
       /\ \/ Call("setFromCylindricalCoords", <<>>, <<s, 0, y>>,
                  setFromCylindricalCoords(Here, "a", s, 0, y))
          \/ Call("setFromCylindrical", <<>>, <<s, 0, y>>,
                  setFromCylindrical(Here, "a", [radius |-> s, theta |-> 0, y |-> y]))

\* ------------------------------------- actions: Vector2 and Vector4 mutators
CallRotateAround ==
  \E v \in SameClass("a") :
    /\ Is("a", 2) /\ Numeric({"a", v})
    /\ Call("rotateAround", <<v>>, <<0>>, rotateAround(Here, "a", v, 0))

\* Vector4.setAxisAngleFromQuaternion(q), setAxisAngleFromRotationMatrix(m)
CallSetAxisAngle ==
  \/ \E q \in Quaternions :
       /\ Is("a", 4)
       /\ Call("setAxisAngleFromQuaternion", <<>>, <<q.x, q.y, q.z, q.w>>,
               setAxisAngleFromQuaternion(Here, "a", q))
  \/ \E m \in Matrices4 :
       /\ Is("a", 4)
       /\ Call("setAxisAngleFromRotationMatrix", <<>>, m,
               setAxisAngleFromRotationMatrix(Here, "a", m))

\* Vector4.setAxisAngleFromRotationMatrix(m) with the identity, the half
\* turns about the axes and a matrix that is not symmetric.
CallSetAxisAngleFromRotation ==
  \E m \in Rotations4 :
    /\ Is("a", 4)
    /\ Call("setAxisAngleFromRotationMatrix", <<>>, m,
            setAxisAngleFromRotationMatrix(Here, "a", m))

\* ------------------------------------------------ actions: arrays and clone
\* a.fromArray(array, offset) with an array of the caller that holds the
\* positions read.
CallFromArray ==
  \E offset \in Offsets :
    /\ pc = "idle"
    /\ offset + vec["a"].type <= Len(SampleArray)
    /\ Done("fromArray", "a", <<>>, <<offset>>, SampleArray,
            fromArray(Here, "a", SampleArray, offset))
    /\ arr' = arr

\* v.toArray(target, offset), the target a new empty array or the caller's
\* array; arr is the array returned.
CallToArray ==
  \E v \in {"a", "b"}, target \in {<<>>, SampleArray}, offset \in Offsets :
    /\ pc = "idle"
    /\ Done("toArray", v, <<>>, <<offset>>, target, [Here EXCEPT !.ret = "array"])
    /\ arr' = toArrayOf(Here, v, target, offset)

\* a.fromArray(v.toArray(target, offset), offset): the array just returned
\* is handed on, to be read where it was written.
CallFromArrayReturned ==
  \E offset \in Offsets :
    /\ pc = "returned"
    /\ last.op = "toArray"
    /\ offset = last.nargs[1]
    /\ offset + vec["a"].type <= Len(arr)
    /\ Done("fromArray", "a", <<last.recv>>, <<offset, last.nargs[1]>>, arr,
            fromArray(Here, "a", arr, offset))
    /\ arr' = arr

\* v.clone()
CallClone ==
  \E v \in {"a", "b"} :
    /\ pc = "idle"
    /\ Done("clone", v, <<>>, <<>>, <<>>, clone(Here, v))
    /\ arr' = arr

\* -------------------------------------------------------- actions: queries
\* A query called by the idle caller on r.
Query(op, r, vargs, nargs, c) ==
  /\ pc = "idle"
  /\ Numeric({r} \cup {vargs[i] : i \in DOMAIN vargs})
  /\ Done(op, r, vargs, nargs, <<>>, c)
  /\ arr' = arr

\* lengthSq(), length(), manhattanLength()
CallLengths ==
  \/ \E r \in {"a"} : Query("lengthSq", r, <<>>, <<>>, lengthSq(Here, r))
  \/ \E r \in {"a"} : Query("length", r, <<>>, <<>>, length(Here, r))
  \/ \E r \in {"a"} : Query("manhattanLength", r, <<>>, <<>>, manhattanLength(Here, r))

\* dot(v), equals(v)
CallDotEquals ==
  \/ \E r \in {"a"} : \E v \in SameClass(r) : Query("dot", r, <<v>>, <<>>, dot(Here, r, v))
  \/ \E r \in {"a"} : \E v \in SameClass(r) :
       Query("equals", r, <<v>>, <<>>, equals(Here, r, v))

\* distanceTo(v), distanceToSquared(v), manhattanDistanceTo(v), angleTo(v)
CallDistances ==
  \/ \E r \in {"a"} : \E v \in SameClass(r) :
       ~Is(r, 4) /\ Query("distanceTo", r, <<v>>, <<>>, distanceTo(Here, r, v))
  \/ \E r \in {"a"} : \E v \in SameClass(r) :
       ~Is(r, 4) /\ Query("distanceToSquared", r, <<v>>, <<>>, distanceToSquared(Here, r, v))
  \/ \E r \in {"a"} : \E v \in SameClass(r) :
       ~Is(r, 4) /\ Query("manhattanDistanceTo", r, <<v>>, <<>>, manhattanDistanceTo(Here, r, v))
  \/ \E r \in {"a"} : \E v \in SameClass(r) :
       ~Is(r, 4) /\ Query("angleTo", r, <<v>>, <<>>, angleTo(Here, r, v))

\* Vector2.cross(v), Vector2.angle()
CallVector2Queries ==
  \/ \E r \in {"a"} : \E v \in SameClass(r) :
       Is(r, 2) /\ Query("Vector2.cross", r, <<v>>, <<>>, Vector2_cross(Here, r, v))
  \/ \E r \in {"a"} : Is(r, 2) /\ Query("angle", r, <<>>, <<>>, Vector2_angle(Here, r))

CallGetComponent ==
  \E r \in {"a"}, i \in Indices :
    Query("getComponent", r, <<>>, <<i>>, getComponent(Here, r, i))

CallIterator == \E r \in {"a"} : Query("iterator", r, <<>>, <<>>, iterator(Here, r))

\* --------------------------------------------------------------------- Next
Mutators ==
  \/ CallSet \/ CallSetScalar \/ CallSetAxis \/ CallSetComponent \/ CallCopy
  \/ CallComponentwise \/ CallScalarArithmetic \/ CallOfTwoVectors \/ CallAddScaledVector
  \/ CallLengthSetters \/ CallLerps \/ CallClamps \/ CallRounding
  \/ CallRandoms \/ CallFromBufferAttribute
  \/ CallCross \/ CallProjections
  \/ CallApplyMatrix3 \/ CallApplyNormalMatrix \/ CallApplyMatrix4
  \/ CallTransformDirection \/ CallCamera \/ CallRotations
  \/ CallSetFromMatrix \/ CallSetFromTriple \/ CallSetFromCoords
  \/ CallRotateAround \/ CallSetAxisAngle
  \/ CallFromArray \/ CallFromArrayReturned

Queries ==
  \/ CallLengths \/ CallDotEquals \/ CallDistances \/ CallVector2Queries
  \/ CallGetComponent \/ CallIterator \/ CallToArray

Next == Mutators \/ Queries \/ CallClone \/ Attach \/ Ack

Spec == Init /\ [][Next]_vars

\* The caller that sets a from rotation matrices, between plain sets.
NextAxisAngle == CallSet \/ CallSetAxis \/ CallSetAxisAngleFromRotation \/ Attach \/ Ack

SpecAxisAngle == Init /\ [][NextAxisAngle]_vars

\* The caller that reassigns the observer of a between mutating calls.
NextObserver == Reassign \/ Mutators \/ CallToArray \/ Ack

SpecObserver == Init /\ [][NextObserver]_vars

\* MathUtils on its own: the module loaded, no vector built.
InitMath ==
  /\ vec = [id \in VecIds |-> NoVector]
  /\ arr = <<>>
  /\ pc = "idle"
  /\ last = NoCall
  /\ left = 0
  /\ seed = InitialSeed
  /\ drawn = NoDraws
  /\ assigned = <<>>

\* The caller that passes b to the methods of a that take vectors.  Here b
\* may also be the Vector2 (1, -1), which has no zero component, so that a
\* componentwise division by b is a finite one.
InitFrame ==
  /\ \E tp \in TypePairs, sa \in SeedsA, sb \in SeedsB \cup {<<1, -1, 0, 0>>} :
       /\ sb \notin SeedsB => tp = <<2, 2>>
       /\ vec = [id \in VecIds |->
                   CASE id = "a" -> NewVector(tp[1], sa[1], sa[2], sa[3], sa[4])
                     [] id = "b" -> NewVector(tp[2], sb[1], sb[2], sb[3], sb[4])
                     [] id = "_vector" -> ScratchVector
                     [] OTHER -> NoVector]
  /\ arr = <<>>
  /\ pc = "returned"
  /\ last = [NoCall EXCEPT !.op = "new", !.pre = vec]
  /\ left = 0
  /\ seed = InitialSeed
  /\ drawn = NoDraws
  /\ assigned = <<>>

NextFrame ==
  \/ CallSet \/ CallCopy \/ CallComponentwise \/ CallOfTwoVectors \/ CallAddScaledVector
  \/ CallLerps \/ CallClamps \/ CallCross \/ CallProjections \/ CallRotateAround
  \/ Attach \/ Ack

SpecFrame == InitFrame /\ [][NextFrame]_vars

\* The caller whose observer of a calls back into a: setters, arithmetic,
\* and the operations that are made of several mutators.
NextReentrant ==
  \/ Arm \/ CallSet \/ CallSetScalar \/ CallSetAxis \/ CallCopy \/ CallComponentwise
  \/ CallScalarArithmetic \/ CallLengthSetters \/ CallClamps \/ CallProjections
  \/ CallCamera \/ Ack

SpecReentrant == Init /\ [][NextReentrant]_vars

\* The caller of the pure functions, and the caller of seededRandom.
NextMath == CallMathUtils \/ Ack

SpecMath == InitMath /\ [][NextMath]_vars

NextRandom == CallSeededRandom

SpecRandom == InitMath /\ [][NextRandom]_vars

\* ------------------------------------------------- the methods, by kind
\* The methods that write the receiver (each ends in #markDirty()).
MutatorOps ==
  {"set", "setScalar", "setX", "setY", "setZ", "setW", "setComponent", "copy",
   "add", "addScalar", "addVectors", "addScaledVector", "sub", "subScalar", "subVectors",
   "multiply", "multiplyScalar", "multiplyVectors", "divide", "divideScalar",
   "normalize", "setLength", "lerp", "lerpVectors", "clamp", "clampScalar", "clampLength",
   "floor", "ceil", "round", "roundToZero", "negate", "random", "fromBufferAttribute",
   "cross", "crossVectors", "projectOnVector", "projectOnPlane", "reflect",
   "applyMatrix3", "applyNormalMatrix", "applyMatrix4", "transformDirection",
   "project", "unproject", "applyQuaternion", "applyEuler", "applyAxisAngle",
   "setFromMatrixPosition", "setFromMatrixScale", "setFromMatrixColumn",
   "setFromMatrix3Column", "setFromEuler", "setFromColor",
   "setFromSphericalCoords", "setFromSpherical", "setFromCylindricalCoords",
   "setFromCylindrical", "randomDirection", "rotateAround",
   "setAxisAngleFromQuaternion", "setAxisAngleFromRotationMatrix", "fromArray"}

\* The methods that only read the receiver.
QueryOps ==
  {"lengthSq", "length", "manhattanLength", "dot", "equals", "distanceTo",
   "distanceToSquared", "manhattanDistanceTo", "angleTo", "Vector2.cross", "angle",
   "getComponent", "iterator", "toArray"}

\* A call of one of `ops` has just returned.
Returned(ops) == pc = "returned" /\ last.op \in ops

\* The observer invocation a call on r owes to the callback attached when
\* the call was made: that callback, with r as its argument.
Notification(r) == [fn |-> last.pre[r].onChange, arg |-> r]

\* ------------------------------------------------------------------ claims
\* C1: when a mutating call of a Vector2, Vector3 or Vector4 has returned
\* without raising, the receiver's isDirty is true, with or without an
\* observer attached.
C1_MutatorsSetDirty ==
  (Returned(MutatorOps) /\ last.err = "none") => vec[last.recv].isDirty

\* A composite mutator has returned on a vector that was clean and had no
\* observer, and the vector is dirty.
C1_Witness ==
  /\ Returned({"setFromMatrixScale", "clampLength", "projectOnPlane", "rotateAround",
               "setAxisAngleFromRotationMatrix"})
  /\ ~last.pre["a"].isDirty
  /\ last.pre["a"].onChange = "null"
  /\ vec["a"].isDirty

\* C2: with an observer attached, every mutating call that returns has
\* invoked that observer exactly once, with the receiver as its argument.
C2_ObserverExactlyOnce ==
  (Returned(MutatorOps) /\ last.err = "none" /\ last.pre[last.recv].onChange \in Callbacks)
    => last.notes = <<Notification(last.recv)>>

\* C3: every mutating call that returns, returns the receiver.
C3_MutatorsReturnReceiver ==
  (Returned(MutatorOps) /\ last.err = "none") => last.ret = last.recv

\* C4: a query leaves the receiver's components and isDirty as they were
\* and invokes no observer.
C4_QueriesArePure ==
  Returned(QueryOps) =>
    /\ vec[last.recv].c = last.pre[last.recv].c
    /\ vec[last.recv].isDirty = last.pre[last.recv].isDirty
    /\ last.notes = <<>>

\* A query with a vector argument has returned a value on a clean vector
\* that has an observer.
C4_Witness ==
  /\ Returned({"dot", "equals", "distanceTo"})
  /\ last.err = "none"
  /\ ~vec["a"].isDirty
  /\ vec["a"].onChange \in Callbacks

\* C5: the vectors just constructed are clean and have no observer, and no
\* call turns the isDirty of any vector from true to false.
C5_FreshCleanDirtyStays ==
  /\ Returned({"new"}) => \A id \in {"a", "b"} : ~vec[id].isDirty /\ vec[id].onChange = "null"
  /\ pc = "returned" => \A id \in VecIds : last.pre[id].isDirty => vec[id].isDirty

\* A mutator has returned on a vector that was dirty already, and it is
\* dirty still.
C5_Witness ==
  /\ Returned({"copy", "negate", "setLength", "fromArray"})
  /\ last.pre["a"].isDirty
  /\ vec["a"].isDirty

\* C6: clone() returns a new object of the source's class with the
\* source's components, clean and without observer; the source is as it
\* was and its observer is not invoked.
C6_CloneIsFresh ==
  Returned({"clone"}) =>
    /\ last.ret \notin {"a", "b", "_vector"}
    /\ last.pre[last.ret].type = 0
    /\ vec[last.ret].type = last.pre[last.recv].type
    /\ \A f \in Fields(vec[last.ret].type) : vec[last.ret].c[f] = last.pre[last.recv].c[f]
    /\ ~vec[last.ret].isDirty
    /\ vec[last.ret].onChange = "null"
    /\ vec[last.recv] = last.pre[last.recv]
    /\ last.notes = <<>>

\* A dirty vector with an observer has been cloned.
C6_Witness ==
  /\ Returned({"clone"})
  /\ last.recv = "a"
  /\ vec["a"].isDirty
  /\ vec["a"].onChange \in Callbacks
  /\ vec["a"].c["x"] # 0

\* C7: setComponent and getComponent with an index outside [0, dimension)
\* raise IndexOutOfRange, and then the vector is as it was and the observer
\* is not invoked.
C7_IndexOutOfRange ==
  (Returned({"setComponent", "getComponent"})
     /\ last.nargs[1] \notin 0..(vec[last.recv].type - 1))
    => /\ last.err = "IndexOutOfRange"
       /\ vec[last.recv] = last.pre[last.recv]
       /\ last.notes = <<>>

\* setComponent with the first index past the last component has raised on
\* a clean vector with an observer.
C7_Witness ==
  /\ Returned({"setComponent"})
  /\ last.nargs[1] = vec["a"].type
  /\ last.err = "IndexOutOfRange"
  /\ ~vec["a"].isDirty
  /\ vec["a"].onChange \in Callbacks

\* C8: v.toArray(target, offset) writes v's components at offset ..
\* offset+d-1 and no other position, and leaves v as it was; then
\* v2.fromArray(that array, offset), v2 of v's dimension, gives v2 the
\* components of v and leaves v as it was.
C8_ArrayRoundTrip ==
  /\ Returned({"toArray"}) =>
       LET d == vec[last.recv].type
           offset == last.nargs[1]
       IN  /\ Len(arr) = Max2(Len(last.array), offset + d)
           /\ \A k \in 1..Len(arr) :
                IF k \in (offset + 1)..(offset + d)
                  THEN arr[k] = vec[last.recv].c[FieldNames[k - offset]]
                  ELSE arr[k] = At(last.array, k - 1)
           /\ vec[last.recv] = last.pre[last.recv]
  /\ (Returned({"fromArray"}) /\ last.vargs # <<>>
        /\ vec[last.vargs[1]].type = vec[last.recv].type) =>
       /\ \A f \in Fields(vec[last.recv].type) :
            vec[last.recv].c[f] = last.pre[last.vargs[1]].c[f]
       /\ last.vargs[1] # last.recv => vec[last.vargs[1]] = last.pre[last.vargs[1]]

\* b's components have gone to a, which held others, through an array
\* written and read at offset 1.
C8_Witness ==
  /\ Returned({"fromArray"})
  /\ last.vargs = <<"b">>
  /\ last.nargs[1] = 1
  /\ vec["b"].type = vec["a"].type
  /\ last.pre["a"].c # vec["a"].c
  /\ ~vec["b"].isDirty

\* C9: Vector3.set(x, y) without z sets x and y, leaves z as it was, marks
\* the vector dirty and notifies the observer.
C9_SetKeepsZ ==
  (Returned({"set"}) /\ vec[last.recv].type = 3 /\ last.nargs[3] = undefined) =>
    /\ vec[last.recv].c["x"] = last.nargs[1]
    /\ vec[last.recv].c["y"] = last.nargs[2]
    /\ vec[last.recv].c["z"] = last.pre[last.recv].c["z"]
    /\ vec[last.recv].isDirty
    /\ last.pre[last.recv].onChange \in Callbacks => Notification(last.recv) \in
         {last.notes[i] : i \in DOMAIN last.notes}

\* set(x, y) has returned on a Vector3 whose z was not 0 and whose x it
\* changed.
C9_Witness ==
  /\ Returned({"set"})
  /\ vec["a"].type = 3
  /\ last.nargs[3] = undefined
  /\ last.pre["a"].c["z"] \notin {0, undefined}
  /\ last.pre["a"].c["x"] # vec["a"].c["x"]
  /\ last.pre["a"].onChange \in Callbacks

\* C10: Vector4.copy(v) takes x, y, z from v, and w from v when v has a w,
\* and 1 when it has none.
C10_CopyDefaultsW ==
  (Returned({"copy"}) /\ vec[last.recv].type = 4) =>
    LET v == last.pre[last.vargs[1]]
    IN  /\ \A f \in {"x", "y", "z"} : vec[last.recv].c[f] = v.c[f]
        /\ vec[last.recv].c["w"] = IF v.c["w"] # undefined THEN v.c["w"] ELSE 1
        /\ vec[last.recv].c["w"] \notin {undefined}

\* A Vector4 whose w was not 1 has copied a Vector3.
C10_Witness ==
  /\ Returned({"copy"})
  /\ vec["a"].type = 4
  /\ vec[last.vargs[1]].type = 3
  /\ last.pre["a"].c["w"] # 1
  /\ vec["a"].c["w"] = 1

\* ------------------------------------------------------------- C11 .. C20
\* A vector with exactly one non-zero component, and the zero vector.
AxisAligned(v) == Cardinality({f \in Fields(v.type) : v.c[f] # 0}) = 1
IsZero(v) == \A f \in Fields(v.type) : v.c[f] = 0

\* C11: normalize() on the zero vector of any class leaves the zero vector,
\* with no NaN and no error; on a non-zero axis-aligned vector it leaves the
\* unit vector of the same direction.
C11_NormalizeZeroAndAxis ==
  Returned({"normalize"}) =>
    LET old == last.pre[last.recv]
        new == vec[last.recv]
    IN  /\ last.err = "none"
        /\ \A f \in Fields(new.type) : new.c[f] # NaN
        /\ IsZero(old) => IsZero(new)
        /\ AxisAligned(old) => \A f \in Fields(new.type) : new.c[f] = Sign(old.c[f])

\* normalize() has returned on a zero Vector4.
C11_Witness ==
  /\ Returned({"normalize"})
  /\ vec["a"].type = 4
  /\ IsZero(last.pre["a"])

\* normalize() has returned on an axis-aligned vector of length 2.
C11_WitnessAxis ==
  /\ Returned({"normalize"})
  /\ AxisAligned(last.pre["a"])
  /\ \E f \in Fields(vec["a"].type) : Abs(last.pre["a"].c[f]) = 2

\* The length of an axis-aligned vector, and that length clamped to [lo, hi].
AxisLength(v) == Abs(v.c[CHOOSE f \in Fields(v.type) : v.c[f] # 0])
Clamped(len, lo, hi) == IF len < lo THEN lo ELSE IF len > hi THEN hi ELSE len

\* The vector (10, 0, 0) of the example, alone on the heap.
TenAlongX ==
  [id \in VecIds |-> IF id = "a" THEN NewVector(3, 10, 0, 0, undefined) ELSE NoVector]

\* C12: clampLength(min, max) with 0 <= min <= max on a non-zero axis-aligned
\* vector of length L leaves the vector of the same direction whose length is
\* L clamped to [min, max]; (10, 0, 0).clampLength(2, 5) leaves (5, 0, 0).
C12_ClampLengthAxis ==
  /\ (Returned({"clampLength"}) /\ AxisAligned(last.pre[last.recv])) =>
       LET old == last.pre[last.recv]
           new == vec[last.recv]
           len == Clamped(AxisLength(old), last.nargs[1], last.nargs[2])
       IN  /\ last.err = "none"
           /\ \A f \in Fields(new.type) : new.c[f] = Sign(old.c[f]) * len
  /\ LET c == clampLength(Ctx(TenAlongX), "a", 2, 5)
     IN  /\ c.ok
         /\ c.err = "none"
         /\ <<c.h["a"].c["x"], c.h["a"].c["y"], c.h["a"].c["z"]>> = <<5, 0, 0>>

\* clampLength(2, 2) has returned on an axis-aligned vector of length 1,
\* which it stretched to length 2.
C12_Witness ==
  /\ Returned({"clampLength"})
  /\ AxisAligned(last.pre["a"])
  /\ AxisLength(last.pre["a"]) = 1
  /\ last.nargs = <<2, 2>>
  /\ AxisLength(vec["a"]) = 2

\* C13: Vector4.setAxisAngleFromQuaternion(q) sets the axis to (1, 0, 0)
\* whenever s = sqrt(1 - q.w * q.w) is below 0.0001, without dividing by s;
\* for the identity quaternion it leaves the axis (1, 0, 0) and w = 0.
C13_DegenerateAxis ==
  Returned({"setAxisAngleFromQuaternion"}) =>
    LET qx == last.nargs[1]
        qy == last.nargs[2]
        qz == last.nargs[3]
        qw == last.nargs[4]
        new == vec[last.recv].c
    IN  /\ last.err = "none"
        /\ (1 - qw * qw = 0) =>
             <<new["x"], new["y"], new["z"]>> = <<1, 0, 0>>
        /\ (<<qx, qy, qz, qw>> = <<0, 0, 0, 1>>) =>
             <<new["x"], new["y"], new["z"], new["w"]>> = <<1, 0, 0, 0>>

\* setAxisAngleFromQuaternion has returned for the identity quaternion on a
\* Vector4 whose axis was not (1, 0, 0).
C13_Witness ==
  /\ Returned({"setAxisAngleFromQuaternion"})
  /\ last.nargs = <<0, 0, 0, 1>>
  /\ last.pre["a"].c["x"] # 1
  /\ vec["a"].c["x"] = 1

\* The stored seed n calls after a reseed with s.
RECURSIVE SeedAfter(_, _)
SeedAfter(s, n) == IF n = 0 THEN Big(s) ELSE AddBig(SeedAfter(s, n - 1), SeedStep)

\* C14: seededRandom(s) followed by calls without an argument gives the same
\* values in every run, whatever was called before the reseed: the values
\* drawn since the reseed and the stored seed are functions of s and of the
\* number of calls alone; each call without an argument moves the stored seed
\* on, the call with an argument replaces it.
C14_SeededRandomDeterministic ==
  drawn.since # undefined =>
    /\ \A k \in 1..Len(drawn.out) : drawn.out[k] = Mulberry(SeedAfter(drawn.since, k))
    /\ seed = SeedAfter(drawn.since, Len(drawn.out))
    /\ \A j, k \in 0..Len(drawn.out) :
         j # k => SeedAfter(drawn.since, j) # SeedAfter(drawn.since, k)

\* Three values have been drawn since a reseed with 42 that replaced a seed
\* earlier calls had moved on from its initial value.
C14_Witness ==
  /\ drawn.since = 42
  /\ Len(drawn.out) = 3
  /\ drawn.replaced \notin {InitialSeed, SeedAfter(42, 1), SeedAfter(42, 2), SeedAfter(42, 3)}

\* C15: diffTypedArray raises the length-mismatch error when the two
\* sequences differ in length, with no result; for equal lengths it returns
\* a sequence of that length holding |a[i] - b[i]| and the sum of these.
C15_DiffTypedArray ==
  Returned({"diffTypedArray"}) =>
    LET arr1 == last.array[1]
        arr2 == last.array[2]
        gap(i) == IF arr1[i] >= arr2[i] THEN arr1[i] - arr2[i] ELSE arr2[i] - arr1[i]
        RECURSIVE sum(_)
        sum(n) == IF n = 0 THEN 0 ELSE sum(n - 1) + gap(n)
    IN  IF Len(arr1) # Len(arr2)
          THEN last.err = "Array length mismatch"
          ELSE /\ last.err = "none"
               /\ Len(last.val.diffArray) = Len(arr1)
               /\ \A i \in 1..Len(arr1) : last.val.diffArray[i] = gap(i)
               /\ last.val.totalDiff = sum(Len(arr1))

\* diffTypedArray has thrown on arrays of lengths 2 and 1.
C15_Witness ==
  /\ Returned({"diffTypedArray"})
  /\ Len(last.array[1]) = 2
  /\ Len(last.array[2]) = 1
  /\ last.err # "none"

\* C16 as stated: euclideanModulo(n, m) returns r with 0 <= r < m for every
\* integer n and every integer m.
C16_ModuloInRangeForEveryM ==
  Returned({"euclideanModulo"}) =>
    /\ last.val # NaN
    /\ 0 <= last.val
    /\ last.val < last.nargs[2]

\* C16, amended: for every integer n and every integer m > 0,
\* euclideanModulo(n, m) returns the r with 0 <= r < m that differs from n by
\* a multiple of m; for m < 0 it returns r with m < r <= 0, and for m = 0 NaN.
C16_ModuloInRange ==
  Returned({"euclideanModulo"}) =>
    LET n == last.nargs[1]
        m == last.nargs[2]
        r == last.val
    IN  /\ last.err = "none"
        /\ m > 0 => r # NaN /\ 0 <= r /\ r < m /\ (n - r) % m = 0
        /\ m < 0 => r # NaN /\ m < r /\ r <= 0 /\ (n - r) % (0 - m) = 0
        /\ m = 0 => r = NaN

\* euclideanModulo has returned a value above 0 for a negative n and a
\* positive m that does not divide it.
C16_Witness ==
  /\ Returned({"euclideanModulo"})
  /\ last.nargs[1] < 0
  /\ last.nargs[2] > 0
  /\ last.val > 0

\* C17: denormalize on the signed 8-, 16- and 32-bit encodings never returns
\* a value below -1, and maps the most negative integer of the encoding to
\* exactly -1; the unsigned encodings are divided by their largest value and
\* not clamped.
C17_DenormalizeFloor ==
  (Returned({"MathUtils.denormalize"}) /\ last.array \in Encodings \ {"Float32Array"}) =>
    LET value == last.nargs
        max == Scale(last.array)
        least == MulBig(0 - 1, max)
        r == last.val
    IN  /\ last.err = "none"
        /\ r.den = max
        /\ last.array \in {"Int8Array", "Int16Array", "Int32Array"} =>
             /\ ~LessBig(r.num, least)
             /\ value = AddBig(least, Big(0 - 1)) => r.num = least
             /\ ~LessBig(value, least) => r.num = value
        /\ last.array \in {"Uint8Array", "Uint16Array", "Uint32Array"} => r.num = value

\* denormalize has returned -127 / 127 for -128 stored in an Int8Array.
C17_Witness ==
  /\ Returned({"MathUtils.denormalize"})
  /\ last.array = "Int8Array"
  /\ last.nargs = Big(0 - 128)
  /\ last.val = [num |-> Big(0 - 127), den |-> Big(127)]

\* C18: normalize(value, array) and denormalize(value, array) raise the
\* invalid-type error for every array that is none of Float32Array and the
\* signed and unsigned 8-, 16- and 32-bit arrays, and return a value for each
\* of these seven.
C18_UnsupportedEncoding ==
  Returned({"MathUtils.normalize", "MathUtils.denormalize"}) =>
    IF last.array \in {"Float32Array", "Uint32Array", "Uint16Array", "Uint8Array",
                       "Int32Array", "Int16Array", "Int8Array"}
      THEN last.err = "none"
      ELSE last.err = "Invalid type"

\* normalize has thrown for a Float64Array.
C18_Witness ==
  /\ Returned({"MathUtils.normalize"})
  /\ last.array = "Float64Array"
  /\ last.err = "Invalid type"

\* C19: the slot holds at most one observer.  After a second callback has
\* been assigned, a mutating call invokes the second only (the last write
\* wins); after null has been assigned, a mutating call invokes no callback
\* and still sets isDirty.
C19_LastWriteWins ==
  (Returned(MutatorOps) /\ last.err = "none" /\ assigned # <<>>) =>
    LET current == assigned[Len(assigned)]
    IN  /\ \A i \in DOMAIN last.notes : last.notes[i].fn = current
        /\ current \in Callbacks => last.notes # <<>>
        /\ current = "null" => last.notes = <<>>
        /\ vec[last.recv].isDirty

\* A mutating call has returned with spyB invoked, after spyA and then spyB
\* were assigned.
C19_Witness ==
  /\ Returned(MutatorOps)
  /\ assigned = <<"spyA", "spyB">>
  /\ last.notes # <<>>
  /\ \A i \in DOMAIN last.notes : last.notes[i] = [fn |-> "spyB", arg |-> "a"]

\* A mutating call has returned with nothing invoked and a dirty, after spyA
\* and then null were assigned to a clean a.
C19_WitnessNull ==
  /\ Returned(MutatorOps)
  /\ assigned = <<"spyA", "null">>
  /\ last.notes = <<>>
  /\ ~last.pre["a"].isDirty
  /\ vec["a"].isDirty

\* C20: Vector3.setFromMatrixScale(m) leaves x, y and z equal to the
\* Euclidean lengths of columns 0, 1 and 2 of m, for every m.
C20_MatrixScaleIsColumnLengths ==
  (Returned({"setFromMatrixScale"}) /\ last.err = "none") =>
    LET m == last.nargs
        lengthSqOfColumn(i) ==
          m[4 * i + 1] * m[4 * i + 1] + m[4 * i + 2] * m[4 * i + 2] + m[4 * i + 3] * m[4 * i + 3]
        isLength(v, i) == v >= 0 /\ v * v = lengthSqOfColumn(i)
    IN  /\ isLength(vec[last.recv].c["x"], 0)
        /\ isLength(vec[last.recv].c["y"], 1)
        /\ isLength(vec[last.recv].c["z"], 2)

\* ------------------------------------------------------------- C21 .. C25
\* C21: Vector4.setAxisAngleFromRotationMatrix(m), for m whose off-diagonal
\* pairs differ by less than 0.01: the axis (1, 0, 0) with angle 0 when m is
\* near the identity, otherwise the angle pi with the axis recovered from
\* the largest of (m11 + 1) / 2, (m22 + 1) / 2, (m33 + 1) / 2; the identity
\* gives (1, 0, 0, 0) and the half turns diag(1, -1, -1), diag(-1, 1, -1),
\* diag(-1, -1, 1) give (1, 0, 0, pi), (0, 1, 0, pi), (0, 0, 1, pi).  Outside
\* the symmetric case the axis is the skew part over its magnitude s, and s
\* is replaced by 1 when it is below 0.001.
C21_AxisAngleFromRotationMatrix ==
  Returned({"setAxisAngleFromRotationMatrix"}) =>
    LET m == last.nargs
        new == vec[last.recv].c
        axisAngle == <<new["x"], new["y"], new["z"], new["w"]>>
        skew == <<m[7] - m[10], m[9] - m[3], m[2] - m[5]>>
        s2 == skew[1] * skew[1] + skew[2] * skew[2] + skew[3] * skew[3]
        trace == m[1] + m[6] + m[11]
        largest == CHOOSE d \in {m[1], m[6], m[11]} : \A e \in {m[1], m[6], m[11]} : e <= d
    IN  /\ last.err = "none"
        /\ m = Identity4 => axisAngle = <<1, 0, 0, 0>>
        /\ m = HalfTurnX => axisAngle = <<1, 0, 0, PI>>
        /\ m = HalfTurnY => axisAngle = <<0, 1, 0, PI>>
        /\ m = HalfTurnZ => axisAngle = <<0, 0, 1, PI>>
        /\ (s2 = 0 /\ trace # 3) =>
             /\ new["w"] = PI
             /\ \E f \in {"x", "y", "z"} : new[f] >= 0 /\ 2 * new[f] * new[f] = largest + 1
        /\ s2 # 0 =>
             LET s == IF Sqrt(s2) * 1000 < 1 THEN 1 ELSE Sqrt(s2)
             IN  <<new["x"] * s, new["y"] * s, new["z"] * s>> = skew

\* setAxisAngleFromRotationMatrix has returned (0, 1, 0, pi) for the half
\* turn about y, on a Vector4 that held another axis and angle.
C21_Witness ==
  /\ Returned({"setAxisAngleFromRotationMatrix"})
  /\ last.nargs = HalfTurnY
  /\ last.pre["a"].c["y"] # 1
  /\ last.pre["a"].c["w"] # PI
  /\ vec["a"].c["y"] = 1
  /\ vec["a"].c["w"] = PI

\* C22: the scratch vector of Vector3.projectOnPlane and Vector3.reflect does
\* not leak: what the call leaves in the receiver is determined by the
\* receiver's components and the normal's before the call (v - n (v.n)/(n.n),
\* or v for a zero normal, and v - 2 (v.n) n), whatever earlier calls left in
\* the scratch vector, and the scratch vector is not what the call returns.
C22_ScratchDoesNotLeak ==
  (Returned({"projectOnPlane", "reflect"}) /\ last.err = "none") =>
    LET v == last.pre[last.recv].c
        n == last.pre[last.vargs[1]].c
        new == vec[last.recv].c
        vn == v["x"] * n["x"] + v["y"] * n["y"] + v["z"] * n["z"]
        nn == n["x"] * n["x"] + n["y"] * n["y"] + n["z"] * n["z"]
    IN  /\ last.ret # "_vector"
        /\ last.op = "projectOnPlane" =>
             \A f \in {"x", "y", "z"} :
               IF nn = 0 THEN new[f] = v[f] ELSE (v[f] - new[f]) * nn = n[f] * vn
        /\ last.op = "reflect" =>
             \A f \in {"x", "y", "z"} : new[f] = v[f] - 2 * vn * n[f]

\* projectOnPlane has returned and changed its receiver, the scratch vector
\* holding before the call neither zero nor the receiver's components.
C22_Witness ==
  /\ Returned({"projectOnPlane"})
  /\ last.pre["_vector"].c # ScratchVector.c
  /\ last.pre["_vector"].c # last.pre["a"].c
  /\ vec["a"].c # last.pre["a"].c

\* C23: a mutating call on a vector whose observer calls back into the vector
\* returns.  With an observer that still has n mutating calls to make
\* (setX(n), ..., setX(1), one per invocation), the call returns without
\* error, the observer has made all n calls, every nested call has run the
\* hook in turn (the invocation after the k-th nested call finds x as that
\* call set it), isDirty is true, and after a call that notifies once the
\* last nested call's x = 1 is in place.
C23_ReentrantObserverReturns ==
  (Returned(MutatorOps) /\ last.recv = "a" /\ last.err = "none"
     /\ last.pre["a"].onChange = Reentrant) =>
    LET n == last.had
    IN  /\ vec["a"].isDirty
        /\ vec["a"].onChange = Reentrant
        /\ left = 0
        /\ Len(last.notes) >= n + 1
        /\ Len(last.seen) = Len(last.notes)
        /\ \A i \in DOMAIN last.notes : last.notes[i] = [fn |-> Reentrant, arg |-> "a"]
        /\ \A k \in 1..n : last.seen[k + 1][1] = n - k + 1
        /\ (n > 0 /\ Len(last.notes) = n + 1) => vec["a"].c["x"] = 1

\* setX(0) on a vector that holds x = 0, armed with two calls: three
\* invocations, and x = 1 when the call returns.
C23_Witness ==
  /\ Returned({"setX"})
  /\ last.had = 2
  /\ last.nargs = <<0>>
  /\ last.pre["a"].c["x"] = 0
  /\ Len(last.notes) = 3
  /\ vec["a"].c["x"] = 1
  /\ vec["a"].isDirty

\* C24: at every observer invocation the vector is in its committed state:
\* the observer finds isDirty true, and the components it reads are the
\* ones the vector holds when the caller's mutating call returns.
C24_ObserverSeesCommittedState ==
  (Returned(MutatorOps) /\ last.err = "none"
     /\ last.pre[last.recv].onChange \in Callbacks) =>
    LET v == vec[last.recv]
    IN  \A i \in DOMAIN last.seen :
          last.seen[i] = <<v.c["x"], v.c["y"], v.c["z"], v.c["w"], TRUE>>

\* C25: a mutating call that takes vector arguments leaves every argument
\* other than the receiver as it was (components, isDirty, onChange) and
\* invokes no argument's observer.
C25_ArgumentsUntouched ==
  (Returned(MutatorOps) /\ last.vargs # <<>>) =>
    \A i \in DOMAIN last.vargs :
      LET v == last.vargs[i]
      IN  v # last.recv =>
            /\ vec[v] = last.pre[v]
            /\ \A k \in DOMAIN last.notes : last.notes[k].arg # v

\* a.add(b) with b observed, clean and not zero: a changed and a's observer
\* ran, b did not change.
C25_Witness ==
  /\ Returned({"add"})
  /\ last.recv = "a"
  /\ last.vargs = <<"b">>
  /\ last.pre["b"].onChange = "spyB"
  /\ ~last.pre["b"].isDirty
  /\ last.pre["a"].onChange = "spyA"
  /\ vec["a"].c # last.pre["a"].c
  /\ last.notes # <<>>

====
